---- MODULE Spec2Model ----
(***************************************************************************)
(* Carousel optimizer: similarity analysis (modules/similarity.py) and the *)
(* diversity-aware ranking engine (modules/recommendation_engine.py).      *)
(*                                                                         *)
(* Numbers.  Similarities, thresholds and the duplicate penalty are held in *)
(* hundredths (0.92 is 92), the two ranking weights in thousandths (0.6 is *)
(* 600).  Composite quality scores are whole points 0..100.  Hero scores   *)
(* are held in hundredths of a point and reported ranking scores in        *)
(* 1/100000 of a point, so that every product the code forms is an exact   *)
(* integer.                                                                *)
(***************************************************************************)
EXTENDS Integers, Sequences, FiniteSets, TLC

\* ------------------------------------------------------------------ bounds
\* Largest batch the model draws.
MaxImages == 3
\* Largest max_size an EmbeddingCache is built with, and the number of cache
\* calls followed.
MaxCacheSize == 2
MaxOps == 5
\* Longest file list of a session.
MaxFiles == 2

\* ------------------------------------------------------- program constants
\* similarity.py: default duplicate threshold 0.92.
DefaultThreshold == 92
\* recommendation_engine.py __init__: 0.6 / 0.4 / 0.3.
DefaultQualityWeight == 600
DefaultDiversityWeight == 400
DefaultDuplicatePenalty == 30
\* EmbeddingGenerator builds its cache with max_size = 100.
DefaultCacheSize == 100
\* recommendation_engine.py _select_hero_image: 0.2 penalty, 1.1 bonus (tenths).
HeroDuplicateFactor == 2
HeroResolutionFactor == 11
HeroMinWidth == 1200
HeroMinHeight == 800

\* Upload validation limits.
MaxFileSize == 8388608
MinFileSize == 100
MaxDimension == 4096
MinDimension == 100

\* ------------------------------------------------------------ input pools
IdPool == <<"img1", "img2", "img3", "img4", "img5">>
NoSuchId == "nonexistent"
BatchIds(n) == SubSeq(IdPool, 1, n)
IdsOrGhost(n) == {IdPool[i] : i \in 1..n} \cup {NoSuchId}

\* Off-diagonal similarities of a directly constructed SimilarityResult.
SimValues == {-50, 30, 95, 100}
\* Caller thresholds: the default, an override equal to a drawn similarity,
\* and the lower end of the valid range.
Thresholds == {50, 92, 95}

\* --------------------------------------------------------------- helpers
Max2(a, b) == IF b > a THEN b ELSE a

\* list.index(x): the first position holding x; 0 stands for ValueError.
IndexOf(seq, x) ==
  IF \E i \in 1..Len(seq) : seq[i] = x
  THEN CHOOSE i \in 1..Len(seq) : seq[i] = x /\ \A j \in 1..(i - 1) : seq[j] # x
  ELSE 0

\* Symmetric n x n matrices with unit diagonal over the values vals.
SymmetricMatrices(n, vals) ==
  LET pairs == {p \in (1..n) \X (1..n) : p[1] < p[2]}
  IN  { [i \in 1..n |-> [j \in 1..n |->
           IF i = j THEN 100
           ELSE IF i < j THEN upper[<<i, j>>] ELSE upper[<<j, i>>]]] :
        upper \in [pairs -> vals] }

\* ----------------------------------------------------- SimilarityResult
\* Index pairs in the order of the nested loops "for i: for j in i+1..n".
PairOrder(n) ==
  SelectSeq([k \in 1..(n * n) |-> <<((k - 1) \div n) + 1, ((k - 1) % n) + 1>>],
            LAMBDA p : p[1] < p[2])

\* Faulty variant of _find_duplicates: similarity >= threshold.
find_duplicates_ge(matrix, ids, threshold) ==
  LET hits == SelectSeq(PairOrder(Len(ids)),
                        LAMBDA p : matrix[p[1]][p[2]] >= threshold)
  IN  [k \in 1..Len(hits) |->
         [image_a |-> ids[hits[k][1]], image_b |-> ids[hits[k][2]],
          similarity |-> matrix[hits[k][1]][hits[k][2]]]]

\* Faulty variant of _find_duplicates: the comparison turned round.
find_duplicates_lt(matrix, ids, threshold) ==
  LET hits == SelectSeq(PairOrder(Len(ids)),
                        LAMBDA p : matrix[p[1]][p[2]] < threshold)
  IN  [k \in 1..Len(hits) |->
         [image_a |-> ids[hits[k][1]], image_b |-> ids[hits[k][2]],
          similarity |-> matrix[hits[k][1]][hits[k][2]]]]

\* SimilarityResult._find_duplicates: the pairs i < j with similarity above
\* the threshold, in loop order.
find_duplicates(matrix, ids, threshold) ==
  LET hits == SelectSeq(PairOrder(Len(ids)),
                        LAMBDA p : matrix[p[1]][p[2]] > threshold)
  IN  [k \in 1..Len(hits) |->
         [image_a |-> ids[hits[k][1]], image_b |-> ids[hits[k][2]],
          similarity |-> matrix[hits[k][1]][hits[k][2]]]]

\* SimilarityResult.__init__: duplicates are found with the default threshold.
SimilarityResult(matrix, ids) ==
  [similarity_matrix |-> matrix, image_ids |-> ids,
   duplicates |-> find_duplicates(matrix, ids, DefaultThreshold)]

get_similarity(result, image_a_id, image_b_id) ==
  LET idx_a == IndexOf(result.image_ids, image_a_id)
      idx_b == IndexOf(result.image_ids, image_b_id)
  IN  IF idx_a = 0 \/ idx_b = 0 THEN 0
      ELSE result.similarity_matrix[idx_a][idx_b]

get_duplicate_ids(result) ==
  {result.duplicates[k].image_a : k \in 1..Len(result.duplicates)} \cup
  {result.duplicates[k].image_b : k \in 1..Len(result.duplicates)}

\* --------------------------------------------------- SimilarityAnalyzer
RECURSIVE MaxSimilarityOver(_, _, _, _)
\* The loop of get_diversity_score over selected_ids, from accumulator acc.
MaxSimilarityOver(result, image_id, selected_ids, acc) ==
  IF selected_ids = <<>> THEN acc
  ELSE MaxSimilarityOver(result, image_id, Tail(selected_ids),
                         Max2(acc, get_similarity(result, image_id, Head(selected_ids))))

\* Faulty variant of get_diversity_score: only the first selected id counts.
get_diversity_score_first_only(image_id, selected_ids, result) ==
  IF selected_ids = <<>> THEN 100
  ELSE 100 - Max2(0, get_similarity(result, image_id, Head(selected_ids)))

\* get_diversity_score: 1.0 for no selected ids, else 1 - max_similarity with
\* max_similarity starting from 0.0.

get_diversity_score(image_id, selected_ids, result) ==
  IF selected_ids = <<>> THEN 100
  ELSE 100 - MaxSimilarityOver(result, image_id, selected_ids, 0)

RECURSIVE SeqMax(_)
SeqMax(s) == IF Len(s) = 1 THEN s[1] ELSE Max2(s[1], SeqMax(Tail(s)))

\* similarities[:idx] ++ similarities[idx+1:] (idx is 1-based here).
WithoutIndex(s, idx) == SubSeq(s, 1, idx - 1) \o SubSeq(s, idx + 1, Len(s))

\* Faulty variant of get_redundancy_score: the self-similarity is kept.
get_redundancy_score_withself(image_id, result) ==
  LET idx == IndexOf(result.image_ids, image_id)
  IN  IF idx = 0 THEN 0
      ELSE SeqMax(result.similarity_matrix[idx])

get_redundancy_score(image_id, result) ==
  LET idx == IndexOf(result.image_ids, image_id)
  IN  IF idx = 0 THEN 0
      ELSE LET other_similarities == WithoutIndex(result.similarity_matrix[idx], idx)
           IN  IF Len(other_similarities) = 0 THEN 0
               ELSE SeqMax(other_similarities)

\* ------------------------------------------------------------ embeddings
\* An embedding is a unit vector in a plane, named by its direction in
\* degrees, or the zero vector a failed image receives.
UnitVector(angle) == [kind |-> "unit", angle |-> angle]
ZeroVector == [kind |-> "zero", angle |-> 0]
\* A malformed embedding: a unit vector of another length than the rest.
ShortVector == [kind |-> "short", angle |-> 0]
EmbeddingPool ==
  {UnitVector(0), UnitVector(18), UnitVector(30), UnitVector(120), ZeroVector, ShortVector}

\* cos of an angle difference, in hundredths, for the directions of the pool.
CosDeg(d) ==
  CASE d = 0 -> 100
    [] d = 12 -> 98
    [] d = 18 -> 95
    [] d = 30 -> 87
    [] d = 90 -> 0
    [] d = 102 -> -21
    [] d = 120 -> -50

AngleBetween(a, b) ==
  LET d == IF a >= b THEN a - b ELSE b - a
  IN  IF d > 180 THEN 360 - d ELSE d

\* sklearn cosine_similarity: rows are normalised, a zero row stays zero.
cosine_similarity(embeddings) ==
  [i \in 1..Len(embeddings) |-> [j \in 1..Len(embeddings) |->
     IF embeddings[i].kind = "zero" \/ embeddings[j].kind = "zero" THEN 0
     ELSE CosDeg(AngleBetween(embeddings[i].angle, embeddings[j].angle))]]

IdentityMatrix(n) == [i \in 1..n |-> [j \in 1..n |-> IF i = j THEN 100 ELSE 0]]

\* np.stack(embeddings) raises ValueError unless all arrays have one shape.
StackFails(embeddings) ==
  \E i, j \in 1..Len(embeddings) :
    (embeddings[i].kind = "short") # (embeddings[j].kind = "short")

\* compute_similarity_matrix: the empty batch gives the empty array; np.stack
\* raises on arrays of different shapes; the log call takes np.max over the
\* entries below 1.0, which raises on an empty selection; and every
\* exception in the try block returns np.eye(n).
compute_similarity_matrix(embeddings) ==
  IF Len(embeddings) = 0 THEN <<>>
  ELSE LET similarity_matrix == cosine_similarity(embeddings)
           n == Len(embeddings)
       IN  IF StackFails(embeddings) THEN IdentityMatrix(n)
           ELSE IF \A i, j \in 1..n : similarity_matrix[i][j] >= 100
           THEN IdentityMatrix(n)
           ELSE similarity_matrix

\* An analysis that answers a length mismatch with the empty result.
analyze_similarity_lenient(embeddings, image_ids, duplicate_threshold) ==
  IF Len(embeddings) # Len(image_ids) \/ Len(embeddings) = 0
  THEN [raised |-> FALSE, result |-> SimilarityResult(<<>>, <<>>)]
  ELSE LET similarity_matrix == compute_similarity_matrix(embeddings)
       IN  [raised |-> FALSE,
            result |-> [SimilarityResult(similarity_matrix, image_ids) EXCEPT !.duplicates =
                          find_duplicates(similarity_matrix, image_ids, duplicate_threshold)]]

\* analyze_similarity: ValueError on a length mismatch; otherwise the result,
\* with the duplicates recomputed when the threshold is not the default.
analyze_similarity(embeddings, image_ids, duplicate_threshold) ==
  IF Len(embeddings) # Len(image_ids)
  THEN [raised |-> TRUE, result |-> SimilarityResult(<<>>, <<>>)]
  ELSE IF Len(embeddings) = 0
  THEN [raised |-> FALSE, result |-> SimilarityResult(<<>>, <<>>)]
  ELSE LET similarity_matrix == compute_similarity_matrix(embeddings)
           result == SimilarityResult(similarity_matrix, image_ids)
       IN  [raised |-> FALSE,
            result |-> IF duplicate_threshold # DefaultThreshold
                       THEN [result EXCEPT !.duplicates =
                               find_duplicates(similarity_matrix, image_ids,
                                               duplicate_threshold)]
                       ELSE result]

\* ------------------------------------------------ recommendation engine
\* ImageData: id, composite quality score and resolution of its metrics.
\* Composite score and resolution of the images a batch is drawn from: three
\* small images, one at the bonus resolution, one wide but not high enough.
ProfilePool ==
  {<<50, <<800, 600>>>>, <<70, <<800, 600>>>>, <<90, <<800, 600>>>>,
   <<85, <<1200, 800>>>>, <<85, <<1920, 600>>>>}
ImageData(id, composite_score, resolution) ==
  [id |-> id, composite_score |-> composite_score, resolution |-> resolution]

\* Faulty variant of the hero score: the resolution bonus left out.
HeroScoreNoBonus(image, duplicate_ids) ==
  image.composite_score
    * (IF image.id \in duplicate_ids THEN HeroDuplicateFactor ELSE 10) * 10

\* _select_hero_image: the score of one image, in hundredths of a point.
HeroScore(image, duplicate_ids) ==
  image.composite_score
    * (IF image.id \in duplicate_ids THEN HeroDuplicateFactor ELSE 10)
    * (IF image.resolution[1] >= HeroMinWidth /\ image.resolution[2] >= HeroMinHeight
       THEN HeroResolutionFactor ELSE 10)

\* max(scored, key): Python returns the first maximal element.
FirstMaxIndex(scores) ==
  CHOOSE i \in 1..Len(scores) :
    /\ \A j \in 1..Len(scores) : scores[j] <= scores[i]
    /\ \A j \in 1..(i - 1) : scores[j] < scores[i]

select_hero_image(images, duplicate_ids) ==
  images[FirstMaxIndex([k \in 1..Len(images) |-> HeroScore(images[k], duplicate_ids)])]

\* Faulty variant of the sort: reverse=True forgotten.
SortedAsc(scored) ==
  LET n == Len(scored)
      Place(k) == 1 + Cardinality({j \in 1..n :
                        \/ scored[j].score < scored[k].score
                        \/ (scored[j].score = scored[k].score /\ j < k)})
  IN  [r \in 1..n |-> scored[CHOOSE k \in 1..n : Place(k) = r]]

\* Faulty variant of the sort: equal keys come out in reverse input order.
SortedDescReversedTies(scored) ==
  LET n == Len(scored)
      Place(k) == 1 + Cardinality({j \in 1..n :
                        \/ scored[j].score > scored[k].score
                        \/ (scored[j].score = scored[k].score /\ j > k)})
  IN  [r \in 1..n |-> scored[CHOOSE k \in 1..n : Place(k) = r]]

\* sorted(..., key=score, reverse=True): descending, equal keys keep their order.
SortedDesc(scored) ==
  LET n == Len(scored)
      Place(k) == 1 + Cardinality({j \in 1..n :
                        \/ scored[j].score > scored[k].score
                        \/ (scored[j].score = scored[k].score /\ j < k)})
  IN  [r \in 1..n |-> scored[CHOOSE k \in 1..n : Place(k) = r]]

\* The loop body of _rank_remaining_images: combined_score * 100, in 1/100000
\* of a point.
CombinedScore(image, selected_ids, similarity_result, duplicate_ids, qw, dw, penalty) ==
  (qw * image.composite_score
     + dw * get_diversity_score(image.id, selected_ids, similarity_result))
    * (IF image.id \in duplicate_ids THEN penalty ELSE 100)

rank_remaining_images(images, selected_images, similarity_result, duplicate_ids, qw, dw, penalty) ==
  LET selected_ids == [k \in 1..Len(selected_images) |-> selected_images[k].id]
      scored_images ==
        [k \in 1..Len(images) |->
           [image |-> images[k],
            score |-> CombinedScore(images[k], selected_ids, similarity_result,
                                    duplicate_ids, qw, dw, penalty)]]
  IN  SortedDesc(scored_images)

\* Faulty variant of remaining_images: the hero is not filtered out.
RemainingImagesAll(images, hero_image) == images

\* remaining_images = [img for img in images if img.id != hero_image.id]
RemainingImages(images, hero_image) ==
  SelectSeq(images, LAMBDA img : img.id # hero_image.id)

RecommendationItem(position, image_id, score, is_hero) ==
  [position |-> position, image_id |-> image_id, score |-> score, is_hero |-> is_hero]

\* RecommendationResult.__init__: hero_image is the first item flagged hero.
NoHero == RecommendationItem(0, "none", 0, FALSE)
RecommendationResult(recommendations, similarity_result) ==
  [recommendations |-> recommendations,
   similarity_result |-> similarity_result,
   hero_image |-> IF \E k \in 1..Len(recommendations) : recommendations[k].is_hero
                  THEN recommendations[CHOOSE k \in 1..Len(recommendations) :
                         /\ recommendations[k].is_hero
                         /\ \A j \in 1..(k - 1) : ~recommendations[j].is_hero]
                  ELSE NoHero]

Raised == [raised |-> TRUE, result |-> RecommendationResult(<<>>, SimilarityResult(<<>>, <<>>))]
Returned(result) == [raised |-> FALSE, result |-> result]

\* The body of generate_recommendations after the empty-list shortcut,
\* reading the engine's weights qw, dw and penalty.
RankNonEmptyBatch(images, embeddings, duplicate_threshold, qw, dw, penalty) ==
  LET image_ids == [k \in 1..Len(images) |-> images[k].id]
      analysis == analyze_similarity(embeddings, image_ids, duplicate_threshold)
  IN  IF analysis.raised THEN Raised
      ELSE
        LET similarity_result == analysis.result
            duplicate_ids == get_duplicate_ids(similarity_result)
            hero_image == select_hero_image(images, duplicate_ids)
            remaining_images == RemainingImages(images, hero_image)
            ranked_images == rank_remaining_images(remaining_images, <<hero_image>>,
                               similarity_result, duplicate_ids, qw, dw, penalty)
            recommendations ==
              <<RecommendationItem(1, hero_image.id,
                                   hero_image.composite_score * 100000, TRUE)>>
              \o [k \in 1..Len(ranked_images) |->
                    RecommendationItem(k + 1, ranked_images[k].image.id,
                                       ranked_images[k].score, FALSE)]
        IN  Returned(RecommendationResult(recommendations, similarity_result))

\* A generate_recommendations that validates the lengths before anything else.
generate_recommendations_validating(images, embeddings, duplicate_threshold, qw, dw, penalty) ==
  IF Len(embeddings) # Len(images) THEN Raised
  ELSE IF Len(images) = 0
  THEN Returned(RecommendationResult(<<>>, SimilarityResult(<<>>, <<>>)))
  ELSE RankNonEmptyBatch(images, embeddings, duplicate_threshold, qw, dw, penalty)

\* generate_recommendations: the empty image list returns the empty result
\* before the similarity analysis (and its length check) is reached.
generate_recommendations(images, embeddings, duplicate_threshold, qw, dw, penalty) ==
  IF Len(images) = 0
  THEN Returned(RecommendationResult(<<>>, SimilarityResult(<<>>, <<>>)))
  ELSE RankNonEmptyBatch(images, embeddings, duplicate_threshold, qw, dw, penalty)

\* ------------------------------------------------------- embedding cache
\* numpy arrays are objects: arrays maps each live array to its contents, and
\* two names for one array see each other's writes.
NoArray == 0

\* The array a fresh allocation returns: the first number not in use.
NewArray(arrays) ==
  CHOOSE r \in 1..(Cardinality(DOMAIN arrays) + 1) :
    r \notin DOMAIN arrays /\ \A q \in 1..(r - 1) : q \in DOMAIN arrays

\* np.array(contents): a new array holding contents.
ndarray_new(arrays, contents) ==
  LET r == NewArray(arrays)
  IN  [arrays |-> (r :> contents) @@ arrays, array |-> r]

\* No copy: the same array under a second name.
ndarray_alias(arrays, a) == [arrays |-> arrays, array |-> a]

\* a.copy(): a new array with the contents a has now.
ndarray_copy(arrays, a) == ndarray_new(arrays, arrays[a])

\* Reference counting: only arrays some name still reaches are kept.
Collect(arrays, live) == [r \in (DOMAIN arrays) \cap live |-> arrays[r]]

\* list.remove(x): drops the first occurrence of x.
ListRemove(seq, x) == WithoutIndex(seq, IndexOf(seq, x))

\* del d[k]
DictDelete(d, k) == [j \in (DOMAIN d) \ {k} |-> d[j]]

\* EmbeddingCache(max_size): an empty dict and an empty recency list.
EmbeddingCache(max_size) == [max_size |-> max_size, cache |-> <<>>, access_order |-> <<>>]

\* EmbeddingCache.get: a hit moves the key to the end of access_order and
\* returns a copy of the stored array; a miss returns None (NoArray).
EmbeddingCache_get(self, arrays, key) ==
  IF key \in DOMAIN self.cache
  THEN LET copied == ndarray_copy(arrays, self.cache[key])
       IN  [self |-> [self EXCEPT !.access_order = Append(ListRemove(@, key), key)],
            arrays |-> copied.arrays, ret |-> copied.array]
  ELSE [self |-> self, arrays |-> arrays, ret |-> NoArray]

\* A put that evicts the most recently used key instead of the least.
EmbeddingCache_put_mru(self, arrays, key, embedding) ==
  LET copied == ndarray_copy(arrays, embedding)
  IN  IF key \in DOMAIN self.cache
      THEN [self |-> [self EXCEPT !.cache = [@ EXCEPT ![key] = copied.array],
                                  !.access_order = Append(ListRemove(@, key), key)],
            arrays |-> copied.arrays]
      ELSE LET full == Cardinality(DOMAIN self.cache) >= self.max_size
               lru_key == self.access_order[Len(self.access_order)]
               kept == IF full THEN DictDelete(self.cache, lru_key) ELSE self.cache
               order == IF full
                        THEN SubSeq(self.access_order, 1, Len(self.access_order) - 1)
                        ELSE self.access_order
           IN  [self |-> [self EXCEPT !.cache = (key :> copied.array) @@ kept,
                                      !.access_order = Append(order, key)],
                arrays |-> copied.arrays]

\* A put that never evicts.
EmbeddingCache_put_unbounded(self, arrays, key, embedding) ==
  LET copied == ndarray_copy(arrays, embedding)
  IN  IF key \in DOMAIN self.cache
      THEN [self |-> [self EXCEPT !.cache = [@ EXCEPT ![key] = copied.array],
                                  !.access_order = Append(ListRemove(@, key), key)],
            arrays |-> copied.arrays]
      ELSE [self |-> [self EXCEPT !.cache = (key :> copied.array) @@ self.cache,
                                  !.access_order = Append(self.access_order, key)],
            arrays |-> copied.arrays]

\* A put that relies on an earlier miss: it stores the key as a new one
\* without looking whether it is cached by now.
EmbeddingCache_put_after_miss(self, arrays, key, embedding) ==
  LET copied == ndarray_copy(arrays, embedding)
      full == Cardinality(DOMAIN self.cache) >= self.max_size
      lru_key == Head(self.access_order)
      kept == IF full THEN DictDelete(self.cache, lru_key) ELSE self.cache
      order == IF full THEN Tail(self.access_order) ELSE self.access_order
  IN  [self |-> [self EXCEPT !.cache = (key :> copied.array) @@ kept,
                             !.access_order = Append(order, key)],
       arrays |-> copied.arrays]

\* EmbeddingCache.put: an existing key gets a copy of the new array and moves
\* to the end of access_order; a new key first pops the head of access_order
\* when len(cache) >= max_size, then is stored (as a copy) and appended.
EmbeddingCache_put(self, arrays, key, embedding) ==
  LET copied == ndarray_copy(arrays, embedding)
  IN  IF key \in DOMAIN self.cache
      THEN [self |-> [self EXCEPT !.cache = [@ EXCEPT ![key] = copied.array],
                                  !.access_order = Append(ListRemove(@, key), key)],
            arrays |-> copied.arrays]
      ELSE LET full == Cardinality(DOMAIN self.cache) >= self.max_size
               lru_key == Head(self.access_order)
               kept == IF full THEN DictDelete(self.cache, lru_key) ELSE self.cache
               order == IF full THEN Tail(self.access_order) ELSE self.access_order
           IN  [self |-> [self EXCEPT !.cache = (key :> copied.array) @@ kept,
                                      !.access_order = Append(order, key)],
                arrays |-> copied.arrays]

\* EmbeddingCache.clear
EmbeddingCache_clear(self) == [self EXCEPT !.cache = <<>>, !.access_order = <<>>]

\* ------------------------------------------------------------------ state
VARIABLES
  quality_weight,     \* CarouselRecommendationEngine.quality_weight
  diversity_weight,   \* CarouselRecommendationEngine.diversity_weight
  duplicate_penalty,  \* CarouselRecommendationEngine.duplicate_penalty
  pc,                 \* "idle", or "responded" while a ranking response is held
  request,            \* arguments of the ranking request being answered
  response,           \* what generate_recommendations returned or raised
  result,             \* a SimilarityResult a caller holds
  call,               \* the last SimilarityResult / SimilarityAnalyzer call and its return
  embeddings,         \* the embeddings of the batch under similarity analysis
  analyses,           \* threshold -> outcome of analyze_similarity on that batch
  cache,              \* EmbeddingGenerator.cache, the EmbeddingCache object
  arrays,             \* the live numpy arrays and their contents
  held,               \* the arrays the cache's caller still holds
  cache_call,         \* the last call on the cache and what it returned
  clock,              \* number of cache calls made so far
  last_use,           \* key -> clock value of its last successful get or put
  has_ml_deps,        \* HAS_ML_DEPS: torch and open_clip could be imported
  hash_seed,          \* the process's salt of the builtin hash()
  model,              \* EmbeddingGenerator.model: "none" or "loaded"
  corrupt,            \* the image files that cannot be decoded
  gen_call,           \* the running call on the generator or pipeline, and its outcome
  measurement,        \* what the quality analyzer measured on an image
  quality_metrics,    \* the QualityMetrics object built from the measurement
  upload,             \* the UploadFile handed to validate_upload_file
  validation,         \* how validate_upload_file ended on it
  storage_config,     \* storage_service: use_s3, and whether its directory is the manager's
  sessions,           \* SessionManager.sessions, the in-memory session table
  disk,               \* the manager's upload_dir: session id -> metadata.json and files
  store,              \* the storage service's own directory or bucket, when it is another place
  issued,             \* the ids uuid4 has returned so far
  session_call,       \* the last call on the session manager and what it returned
  cleanup_task,       \* SessionManager._cleanup_task: NoTask (None) or a task
  loop_tasks,         \* every task created for _cleanup_loop, by task number
  stop_call,          \* the stop_cleanup_task call in progress, if any
  cleanup_call,       \* the last start or stop call that returned
  analyze_images,     \* the analyze_images handler: where it is, what it got
  quality_task,       \* the task running analyze_images_parallel
  embedding_task,     \* the task running generate_embeddings_batch
  calls               \* concurrent calls on the generator: their local state

vars == <<quality_weight, diversity_weight, duplicate_penalty, pc, request, response,
          result, call, embeddings, analyses,
          cache, arrays, held, cache_call, clock, last_use,
          has_ml_deps, hash_seed, model, corrupt, gen_call,
          measurement, quality_metrics, upload, validation,
          storage_config, sessions, disk, store, issued, session_call,
          cleanup_task, loop_tasks, stop_call, cleanup_call,
          analyze_images, quality_task, embedding_task, calls>>
engineVars == <<quality_weight, diversity_weight, duplicate_penalty>>
rankVars == <<pc, request, response>>
simVars == <<result, call>>
analysisVars == <<embeddings, analyses>>
cacheVars == <<cache, arrays, held, cache_call, clock, last_use>>
genVars == <<has_ml_deps, hash_seed, model, corrupt, gen_call>>
embedVars == <<cacheVars, genVars>>
qualityVars == <<measurement, quality_metrics>>
validationVars == <<upload, validation>>
sessionVars == <<storage_config, sessions, disk, store, issued, session_call>>
cleanupVars == <<cleanup_task, loop_tasks, stop_call, cleanup_call>>
pipelineVars == <<analyze_images, quality_task, embedding_task>>
concVars == <<calls>>
serviceVars == <<qualityVars, validationVars, sessionVars, cleanupVars, pipelineVars, concVars>>

NoRequest == [op |-> "none"]
NoResponse == [raised |-> FALSE, result |-> RecommendationResult(<<>>, SimilarityResult(<<>>, <<>>))]
NoCall == [op |-> "none"]
NotRun == [run |-> FALSE, raised |-> FALSE, result |-> SimilarityResult(<<>>, <<>>)]

EngineInit ==
  /\ quality_weight = DefaultQualityWeight
  /\ diversity_weight = DefaultDiversityWeight
  /\ duplicate_penalty = DefaultDuplicatePenalty
RankIdle == pc = "idle" /\ request = NoRequest /\ response = NoResponse
SimIdle == result = SimilarityResult(<<>>, <<>>) /\ call = NoCall
AnalysisIdle == embeddings = <<>> /\ analyses = [t \in Thresholds |-> NotRun]

\* Content fingerprints used as cache keys, and contents of cached vectors.
KeyPool == {"hash1", "hash2", "hash3"}
VectorPool == {UnitVector(0), UnitVector(120)}
NoneHeld == [arg |-> NoArray, ret |-> NoArray]
CacheIdle ==
  /\ cache = EmbeddingCache(DefaultCacheSize) /\ arrays = <<>> /\ held = NoneHeld
  /\ cache_call = NoCall /\ clock = 0 /\ last_use = [k \in KeyPool |-> 0]
GenIdle ==
  /\ has_ml_deps = TRUE /\ hash_seed = 0 /\ model = "none" /\ corrupt = {}
  /\ gen_call = NoCall

NoMeasurement == [blur_score |-> 0, brightness |-> 0, contrast |-> 0, resolution |-> <<0, 0>>]
NoMetrics == [built |-> FALSE]
QualityIdle == measurement = NoMeasurement /\ quality_metrics = NoMetrics
NoFile == [filename |-> ""]
NoOutcome == [kind |-> "none"]
ValidationIdle == upload = NoFile /\ validation = NoOutcome
LocalStorage == [use_s3 |-> FALSE, same_dir |-> TRUE]
SessionIdle ==
  /\ storage_config = LocalStorage /\ sessions = <<>> /\ disk = <<>> /\ store = <<>>
  /\ issued = {} /\ session_call = NoCall
NoTask == 0
NotStopping == [pc |-> "idle", task |-> NoTask]
CleanupIdle ==
  /\ cleanup_task = NoTask /\ loop_tasks = <<>> /\ stop_call = NotStopping
  /\ cleanup_call = NoCall
NoAnalysis == [pc |-> "idle", image_count |-> 0, cancel_requested |-> FALSE,
              quality_results |-> {}, embeddings |-> {}]
NotCreated == [state |-> "none", cancel_requested |-> FALSE, images |-> {}]
PipelineIdle ==
  analyze_images = NoAnalysis /\ quality_task = NotCreated /\ embedding_task = NotCreated
\* The coroutines that call the generator at the same time.
Callers == {"first", "second"}
NotCalled == [pc |-> "idle", image_paths |-> <<>>, embeddings |-> <<>>,
              uncached_indices |-> <<>>, found_present |-> FALSE]
ConcIdle == calls = [c \in Callers |-> NotCalled]
ServiceIdle ==
  /\ QualityIdle /\ ValidationIdle /\ SessionIdle /\ CleanupIdle /\ PipelineIdle
  /\ ConcIdle

\* Sequences of length n over the set S.
SeqsOf(S, n) == [1..n -> S]

\* ------------------------------------- similarity queries (SpecSim)
\* Subsets of ids as lists in batch order, the selected_ids a caller passes.
RECURSIVE SetToSeq(_, _)
SetToSeq(ids, S) ==
  IF ids = <<>> THEN <<>>
  ELSE (IF Head(ids) \in S THEN <<Head(ids)>> ELSE <<>>) \o SetToSeq(Tail(ids), S)

SelectedLists(n) ==
  {SetToSeq(BatchIds(n) \o <<NoSuchId>>, S) : S \in SUBSET IdsOrGhost(n)}

SimInit ==
  /\ EngineInit /\ RankIdle /\ AnalysisIdle /\ CacheIdle /\ GenIdle /\ ServiceIdle
  /\ call = NoCall
  /\ \E n \in 0..MaxImages :
       \E m \in SymmetricMatrices(n, SimValues) :
         result = SimilarityResult(m, BatchIds(n))

\* result._find_duplicates(threshold), as a caller overriding the default does.
FindDuplicates(threshold) ==
  /\ call = NoCall
  /\ call' = [op |-> "find_duplicates", threshold |-> threshold,
              ret |-> find_duplicates(result.similarity_matrix, result.image_ids,
                                      threshold)]
  /\ UNCHANGED <<serviceVars, embedVars, result, engineVars, rankVars, analysisVars>>

GetDiversityScore(image_id, selected_ids) ==
  /\ call = NoCall
  /\ call' = [op |-> "get_diversity_score", image_id |-> image_id,
              selected_ids |-> selected_ids,
              ret |-> get_diversity_score(image_id, selected_ids, result)]
  /\ UNCHANGED <<serviceVars, embedVars, result, engineVars, rankVars, analysisVars>>

GetRedundancyScore(image_id) ==
  /\ call = NoCall
  /\ call' = [op |-> "get_redundancy_score", image_id |-> image_id,
              ret |-> get_redundancy_score(image_id, result)]
  /\ UNCHANGED <<serviceVars, embedVars, result, engineVars, rankVars, analysisVars>>

\* The caller has used the returned value and is ready for its next call.
SimReturn ==
  /\ call # NoCall
  /\ call' = NoCall
  /\ UNCHANGED <<serviceVars, embedVars, result, engineVars, rankVars, analysisVars>>

SimNext ==
  \/ call = NoCall /\ \E t \in Thresholds : FindDuplicates(t)
  \/ /\ call = NoCall
     /\ \E x \in IdsOrGhost(Len(result.image_ids)) :
          \E sel \in SelectedLists(Len(result.image_ids)) : GetDiversityScore(x, sel)
  \/ call = NoCall /\ \E x \in IdsOrGhost(Len(result.image_ids)) : GetRedundancyScore(x)
  \/ SimReturn

SpecSim == SimInit /\ [][SimNext]_vars

\* ------------------------------------ similarity analysis (SpecAnalyze)
AnalyzeInit ==
  /\ EngineInit /\ RankIdle /\ SimIdle /\ CacheIdle /\ GenIdle /\ ServiceIdle
  /\ analyses = [t \in Thresholds |-> NotRun]
  /\ \E n \in 0..MaxImages : embeddings \in SeqsOf(EmbeddingPool, n)

\* await SimilarityAnalyzer.analyze_similarity(embeddings, image_ids, threshold)
AnalyzeSimilarity(threshold) ==
  /\ LET outcome == analyze_similarity(embeddings, BatchIds(Len(embeddings)), threshold)
     IN  analyses' = [analyses EXCEPT ![threshold] =
                        [run |-> TRUE, raised |-> outcome.raised,
                         result |-> outcome.result]]
  /\ UNCHANGED <<serviceVars, embedVars, embeddings, engineVars, rankVars, simVars>>

\* await SimilarityAnalyzer.compute_similarity_matrix(embeddings)
ComputeSimilarityMatrix ==
  /\ call = NoCall
  /\ call' = [op |-> "compute_similarity_matrix", raised |-> FALSE,
              ret |-> compute_similarity_matrix(embeddings)]
  /\ UNCHANGED <<serviceVars, embedVars, result, engineVars, rankVars, analysisVars>>

AnalyzeNext ==
  \/ \E t \in Thresholds : AnalyzeSimilarity(t)
  \/ ComputeSimilarityMatrix
  \/ SimReturn

SpecAnalyze == AnalyzeInit /\ [][AnalyzeNext]_vars

\* ---------------------------------------------- ranking requests (Spec)
\* Weights and penalties callers pass to the engine's setters.
WeightInputs == {<<600, 400>>, <<900, 105>>, <<700, 400>>}
PenaltyInputs == {30, 100, 150}
RankThresholds == {92, 97}
RankEmbeddingPool == {UnitVector(0), UnitVector(18), UnitVector(120)}

Abs(x) == IF x < 0 THEN -x ELSE x

Init == EngineInit /\ RankIdle /\ SimIdle /\ AnalysisIdle /\ CacheIdle /\ GenIdle /\ ServiceIdle

\* What a setter of the engine returns or raises: it has no result.
ConfigResponse(raised) == [raised |-> raised, result |-> NoResponse.result]

\* An update_weights without the validation.
UpdateWeightsUnchecked(qw, dw) ==
  /\ pc = "idle"
  /\ request' = [op |-> "update_weights", quality_weight |-> qw, diversity_weight |-> dw]
  /\ quality_weight' = qw /\ diversity_weight' = dw
  /\ response' = ConfigResponse(FALSE)
  /\ pc' = "responded"
  /\ UNCHANGED <<serviceVars, embedVars, duplicate_penalty, simVars, analysisVars>>

\* update_weights: ValueError, and nothing assigned, when the sum is more
\* than 0.01 away from 1.0.
UpdateWeights(qw, dw) ==
  /\ pc = "idle"
  /\ request' = [op |-> "update_weights", quality_weight |-> qw, diversity_weight |-> dw]
  /\ IF Abs(qw + dw - 1000) > 10
     THEN response' = ConfigResponse(TRUE) /\ UNCHANGED <<quality_weight, diversity_weight>>
     ELSE /\ quality_weight' = qw /\ diversity_weight' = dw
          /\ response' = ConfigResponse(FALSE)
  /\ pc' = "responded"
  /\ UNCHANGED <<serviceVars, embedVars, duplicate_penalty, simVars, analysisVars>>

\* set_duplicate_penalty: ValueError, and nothing assigned, outside [0, 1].
SetDuplicatePenalty(penalty) ==
  /\ pc = "idle"
  /\ request' = [op |-> "set_duplicate_penalty", penalty |-> penalty]
  /\ IF ~(0 <= penalty /\ penalty <= 100)
     THEN response' = ConfigResponse(TRUE) /\ UNCHANGED duplicate_penalty
     ELSE duplicate_penalty' = penalty /\ response' = ConfigResponse(FALSE)
  /\ pc' = "responded"
  /\ UNCHANGED <<serviceVars, embedVars, quality_weight, diversity_weight, simVars, analysisVars>>

\* One call of generate_recommendations on the engine, start to return.
GenerateRecommendations(images, embs, duplicate_threshold) ==
  /\ pc = "idle"
  /\ request' = [op |-> "generate_recommendations", images |-> images,
                 embeddings |-> embs, duplicate_threshold |-> duplicate_threshold]
  /\ response' = generate_recommendations(images, embs, duplicate_threshold,
                   quality_weight, diversity_weight, duplicate_penalty)
  /\ pc' = "responded"
  /\ UNCHANGED <<serviceVars, embedVars, engineVars, simVars, analysisVars>>

\* The caller has taken the response; the engine is free for the next request.
TakeResponse ==
  /\ pc = "responded"
  /\ pc' = "idle" /\ request' = NoRequest /\ response' = NoResponse
  /\ UNCHANGED <<serviceVars, embedVars, engineVars, simVars, analysisVars>>

Batches(n) ==
  {[k \in 1..n |-> ImageData(IdPool[k], p[k][1], p[k][2])] : p \in SeqsOf(ProfilePool, n)}

\* Calls whose embeddings list and image list differ in length: n like images
\* and m like embeddings, for every pair of lengths n # m.
UniformBatch(n) == [k \in 1..n |-> ImageData(IdPool[k], 85, <<1200, 800>>)]
MismatchedCalls ==
  {<<UniformBatch(n), [k \in 1..m |-> UnitVector(0)]>> :
     n \in 0..MaxImages, m \in 0..MaxImages} \ {<<UniformBatch(n), [k \in 1..n |-> UnitVector(0)]>> : n \in 0..MaxImages}

Next ==
  \/ \E w \in WeightInputs : UpdateWeights(w[1], w[2])
  \/ \E p \in PenaltyInputs : SetDuplicatePenalty(p)
  \/ /\ pc = "idle"
     /\ \E n \in 0..MaxImages :
          \E images \in Batches(n), embs \in SeqsOf(RankEmbeddingPool, n),
             t \in RankThresholds :
            GenerateRecommendations(images, embs, t)
  \/ /\ pc = "idle"
     /\ \E c \in MismatchedCalls, t \in RankThresholds :
          GenerateRecommendations(c[1], c[2], t)
  \/ TakeResponse

Spec == Init /\ [][Next]_vars

\* ------------------------------------------- embedding cache (SpecCache)
\* A caller drives one EmbeddingCache: it keeps the array it last passed to
\* put (held.arg) and the array the last get returned (held.ret), and may
\* write into either.
CacheInit ==
  /\ EngineInit /\ RankIdle /\ SimIdle /\ AnalysisIdle /\ GenIdle /\ ServiceIdle
  /\ \E m \in 1..MaxCacheSize : cache = EmbeddingCache(m)
  /\ arrays = <<>> /\ held = NoneHeld
  /\ cache_call = NoCall /\ clock = 0 /\ last_use = [k \in KeyPool |-> 0]

\* The arrays reachable from the cache or from the caller.
LiveArrays(self, h) ==
  ({self.cache[k] : k \in DOMAIN self.cache} \cup {h.arg, h.ret}) \ {NoArray}

\* cache.get(key)
Get(key) ==
  /\ clock < MaxOps
  /\ LET out == EmbeddingCache_get(cache, arrays, key)
         h == [held EXCEPT !.ret = out.ret]
     IN  /\ cache' = out.self
         /\ held' = h
         /\ arrays' = Collect(out.arrays, LiveArrays(out.self, h))
         /\ cache_call' = [op |-> "get", key |-> key, hit |-> out.ret # NoArray]
         /\ last_use' = IF out.ret # NoArray
                        THEN [last_use EXCEPT ![key] = clock + 1]
                        ELSE last_use
  /\ clock' = clock + 1
  /\ UNCHANGED <<serviceVars, genVars, engineVars, rankVars, simVars, analysisVars>>

\* cache.put(key, embedding) with a newly built array holding contents.
Put(key, contents) ==
  /\ clock < MaxOps
  /\ LET made == ndarray_new(arrays, contents)
         out == EmbeddingCache_put(cache, made.arrays, key, made.array)
         h == [held EXCEPT !.arg = made.array]
     IN  /\ cache' = out.self
         /\ held' = h
         /\ arrays' = Collect(out.arrays, LiveArrays(out.self, h))
         /\ cache_call' = [op |-> "put", key |-> key, hit |-> key \in DOMAIN cache.cache]
  /\ last_use' = [last_use EXCEPT ![key] = clock + 1]
  /\ clock' = clock + 1
  /\ UNCHANGED <<serviceVars, genVars, engineVars, rankVars, simVars, analysisVars>>

\* cache.clear()
Clear ==
  /\ clock < MaxOps
  /\ cache' = EmbeddingCache_clear(cache)
  /\ arrays' = Collect(arrays, LiveArrays(cache', held))
  /\ cache_call' = [op |-> "clear", key |-> "none", hit |-> FALSE]
  /\ clock' = clock + 1
  /\ UNCHANGED <<serviceVars, held, last_use, genVars, engineVars, rankVars, simVars, analysisVars>>

\* The caller writes new contents into an array it holds (v[:] = contents).
Mutate(slot, contents) ==
  /\ held[slot] # NoArray
  /\ arrays[held[slot]] # contents
  /\ arrays' = [arrays EXCEPT ![held[slot]] = contents]
  /\ cache_call' = [op |-> "mutate", key |-> "none", hit |-> FALSE]
  /\ UNCHANGED <<serviceVars, cache, held, clock, last_use, genVars, engineVars, rankVars, simVars, analysisVars>>

CacheNext ==
  \/ \E k \in KeyPool : Get(k)
  \/ \E k \in KeyPool, v \in VectorPool : Put(k, v)
  \/ Clear
  \/ \E slot \in {"arg", "ret"}, v \in VectorPool : Mutate(slot, v)

SpecCache == CacheInit /\ [][CacheNext]_vars

\* ------------------------------------- embedding generator (SpecEmbed)
\* The image files of a session: path, content fingerprint, the direction
\* the CLIP model encodes the image to, and what the quality detectors
\* measure on it.
PathPool == {"img1.jpg", "img2.jpg", "img3.jpg"}
PathStem(path) ==
  CASE path = "img1.jpg" -> "img1" [] path = "img2.jpg" -> "img2" [] path = "img3.jpg" -> "img3"
get_image_hash(path) ==
  CASE path = "img1.jpg" -> "hash1" [] path = "img2.jpg" -> "hash2" [] path = "img3.jpg" -> "hash3"
encode_image(path) ==
  CASE path = "img1.jpg" -> UnitVector(0)
    [] path = "img2.jpg" -> UnitVector(18)
    [] path = "img3.jpg" -> UnitVector(120)
Measured(path) ==
  CASE path = "img1.jpg" -> [blur_score |-> 1000, brightness |-> 128, contrast |-> 64, resolution |-> <<1920, 1080>>]
    [] path = "img2.jpg" -> [blur_score |-> 500, brightness |-> 128, contrast |-> 64, resolution |-> <<1920, 540>>]
    [] path = "img3.jpg" -> [blur_score |-> 250, brightness |-> 128, contrast |-> 64, resolution |-> <<960, 1080>>]

\* The mock embedding: np.random seeded with hash(image_hash), normalised.
\* It is a unit vector fixed by the fingerprint and the process's hash salt.
MockEmbedding(seed, image_hash) ==
  CASE image_hash = "hash1" -> UnitVector(IF seed = 0 THEN 30 ELSE 120)
    [] image_hash = "hash2" -> UnitVector(IF seed = 0 THEN 120 ELSE 18)
    [] image_hash = "hash3" -> UnitVector(IF seed = 0 THEN 0 ELSE 30)

Min2(a, b) == IF a < b THEN a ELSE b

\* QualityMetrics._calculate_composite_score, the four normalised terms in
\* 1/10000 and the weighted sum brought back to whole points.
calculate_composite_score(blur_score, brightness, contrast, resolution) ==
  LET blur_norm == Min2(blur_score * 10, 10000)
      brightness_norm == 10000 - (Abs(brightness - 128) * 10000) \div 128
      contrast_norm == Min2((contrast * 10000) \div 64, 10000)
      resolution_norm == Min2((resolution[1] * resolution[2] * 100) \div ((1920 * 1080) \div 100), 10000)
      composite == blur_norm * 40 + brightness_norm * 25 + contrast_norm * 25
                     + resolution_norm * 10
  IN  Min2(Max2(composite \div 10000, 0), 100)

\* "x in flags" on a list of strings.
Has(flags, x) == \E i \in 1..Len(flags) : flags[i] = x

\* QualityMetrics._generate_flags: one if/elif chain per metric, appended in
\* this order; the aspect ratio is width / height, or 1 for height 0.
generate_flags(blur_score, brightness, contrast, resolution) ==
  LET width == resolution[1]
      height == resolution[2]
      pixels == width * height
      unusual == height > 0 /\ (10 * width < 7 * height \/ 2 * width > 3 * height)
  IN  (IF blur_score < 100 THEN <<"blurry">>
       ELSE IF blur_score < 300 THEN <<"slightly_blurry">> ELSE <<>>)
      \o (IF brightness < 50 THEN <<"too_dark">>
          ELSE IF brightness < 80 THEN <<"dark">>
          ELSE IF brightness > 200 THEN <<"too_bright">>
          ELSE IF brightness > 170 THEN <<"bright">> ELSE <<>>)
      \o (IF contrast < 20 THEN <<"low_contrast">>
          ELSE IF contrast < 35 THEN <<"moderate_contrast">> ELSE <<>>)
      \o (IF width < 800 \/ height < 600 THEN <<"inadequate_resolution">>
          ELSE IF width < 1200 \/ height < 800 THEN <<"low_resolution">>
          ELSE IF width < 1920 \/ height < 1080 THEN <<"moderate_resolution">> ELSE <<>>)
      \o (IF pixels < 480000 THEN <<"very_low_pixel_count">>
          ELSE IF pixels < 960000 THEN <<"low_pixel_count">> ELSE <<>>)
      \o (IF unusual THEN <<"unusual_aspect_ratio">> ELSE <<>>)

\* The three generic entries appended for a flagless image.
MeetsStandards ==
  <<"Meets all e-commerce quality standards", "Ready for immediate use",
    "Professional-grade image quality">>

\* The last block of _generate_suggestions: the generic entries are appended
\* when fewer than 3 suggestions were collected and there is no flag.
generic_suggestions(suggestions, flags) ==
  IF Len(suggestions) < 3 /\ flags = <<>> THEN MeetsStandards ELSE <<>>

\* suggestions[:8]
Cap(suggestions) == SubSeq(suggestions, 1, Min2(Len(suggestions), 8))

\* QualityMetrics._generate_suggestions: the blocks in source order, each
\* entry named by the start of its text.
generate_suggestions(blur_score, brightness, contrast, resolution, composite_score, flags) ==
  LET width == resolution[1]
      height == resolution[2]
      critical ==
        IF Has(flags, "inadequate_resolution") \/ Has(flags, "very_low_pixel_count")
        THEN <<"CRITICAL: Image too small", "Low resolution causes pixelation",
               "Action: Retake">>
        ELSE <<>>
      sharpness ==
        IF Has(flags, "blurry") THEN <<"URGENT: Image is blurry", "Fix: Use tripod">>
        ELSE IF Has(flags, "slightly_blurry")
        THEN <<"Slight blur detected", "Tip: Use focus lock">>
        ELSE IF blur_score > 800 THEN <<"Exceptional sharpness">>
        ELSE IF blur_score > 500 THEN <<"Sharp and clear">>
        ELSE <<>>
      lighting ==
        IF Has(flags, "too_dark")
        THEN <<"CRITICAL: Image too dark", "Solution: Add lighting">>
        ELSE IF Has(flags, "dark") THEN <<"Slightly dark">>
        ELSE IF Has(flags, "too_bright")
        THEN <<"WARNING: Overexposed", "Fix: Reduce exposure">>
        ELSE IF Has(flags, "bright") THEN <<"Slightly bright">>
        ELSE IF 100 <= brightness /\ brightness <= 150 THEN <<"Perfect lighting">>
        ELSE <<>>
      contrast_block ==
        IF Has(flags, "low_contrast")
        THEN <<"Low contrast", "Fix: Use contrasting background">>
        ELSE IF Has(flags, "moderate_contrast") THEN <<"Moderate contrast">>
        ELSE IF contrast > 50 THEN <<"Excellent contrast">>
        ELSE <<>>
      resolution_block ==
        IF Has(flags, "low_resolution") /\ ~Has(flags, "inadequate_resolution")
        THEN <<"Resolution low", "Impact: Limits zoom capability">>
        ELSE IF Has(flags, "moderate_resolution") THEN <<"Good resolution">>
        ELSE IF width >= 1920 /\ height >= 1080 THEN <<"Premium resolution">>
        ELSE <<>>
      density == IF Has(flags, "low_pixel_count") THEN <<"MP image">> ELSE <<>>
      aspect ==
        IF Has(flags, "unusual_aspect_ratio")
        THEN <<"Unusual aspect ratio", "Recommendation: Use 1:1 or 4:3">>
        ELSE <<>>
      overall ==
        IF composite_score >= 90
        THEN <<"EXCEPTIONAL quality", "This image maximizes conversion potential">>
        ELSE IF composite_score >= 80 THEN <<"Professional quality">>
        ELSE IF composite_score >= 70 THEN <<"Good quality">>
        ELSE IF composite_score >= 60 THEN <<"Acceptable quality">>
        ELSE <<"Below standard", "Low quality images increase bounce rate">>
      suggestions == critical \o sharpness \o lighting \o contrast_block
                       \o resolution_block \o density \o aspect \o overall
  IN  Cap(suggestions \o generic_suggestions(suggestions, flags))

\* QualityMetrics.__init__: the composite score, then the flags, then the
\* suggestions, which read both.
QualityMetrics(blur_score, brightness, contrast, resolution) ==
  LET composite_score == calculate_composite_score(blur_score, brightness, contrast, resolution)
      flags == generate_flags(blur_score, brightness, contrast, resolution)
  IN  [blur_score |-> blur_score, brightness |-> brightness, contrast |-> contrast,
       resolution |-> resolution,
       composite_score |-> composite_score,
       flags |-> flags,
       suggestions |-> generate_suggestions(blur_score, brightness, contrast, resolution,
                                            composite_score, flags)]

\* A decoder that accepts every file.
IsLoadableAlways(path, unreadable) == TRUE

\* Image.open(path).convert('RGB') / cv2.imread succeed on this file.
IsLoadable(path, unreadable) == path \notin unreadable

\* QualityAnalyzer.analyze_image_quality: any failure gives the default metrics.
analyze_image_quality(path, unreadable) ==
  IF IsLoadable(path, unreadable)
  THEN LET m == Measured(path)
       IN  QualityMetrics(m.blur_score, m.brightness, m.contrast, m.resolution)
  ELSE QualityMetrics(0, 0, 0, <<0, 0>>)

\* QualityAnalyzer.analyze_images_parallel
analyze_images_parallel(image_paths, unreadable) ==
  [i \in 1..Len(image_paths) |-> analyze_image_quality(image_paths[i], unreadable)]

\* np.zeros(512)
zeros(h) == ndarray_new(h, ZeroVector)

Indices(n) == [k \in 1..n |-> k]

\* The outcome of a generator call: the cache and arrays afterwards, the
\* returned array(s), the batches handed to model.encode_image and the
\* (key, contents) pairs put into the cache, in order.
GenRaised(self, h) ==
  [raised |-> TRUE, self |-> self, arrays |-> h, ret |-> <<>>,
   inference_calls |-> <<>>, puts |-> <<>>]
GenReturned(self, h, ret, inference_calls, puts) ==
  [raised |-> FALSE, self |-> self, arrays |-> h, ret |-> ret,
   inference_calls |-> inference_calls, puts |-> puts]

\* A generate_embedding that also caches the zero vector of a failed inference.
generate_embedding_caching_failure(self, h, image_path, inference_ok) ==
  IF ~has_ml_deps
  THEN LET made == ndarray_new(h, MockEmbedding(hash_seed, get_image_hash(image_path)))
       IN  GenReturned(self, made.arrays, <<made.array>>, <<>>, <<>>)
  ELSE IF model = "none" THEN GenRaised(self, h)
  ELSE LET image_hash == get_image_hash(image_path)
           got == EmbeddingCache_get(self, h, image_hash)
       IN  IF got.ret # NoArray
           THEN GenReturned(got.self, got.arrays, <<got.ret>>, <<>>, <<>>)
           ELSE IF ~IsLoadable(image_path, corrupt)
           THEN LET z == zeros(h) IN GenReturned(self, z.arrays, <<z.array>>, <<>>, <<>>)
           ELSE LET made == IF inference_ok THEN ndarray_new(h, encode_image(image_path))
                            ELSE zeros(h)
                    put == EmbeddingCache_put(self, made.arrays, image_hash, made.array)
                IN  GenReturned(put.self, put.arrays, <<made.array>>, <<<<image_path>>>>,
                                <<[key |-> image_hash, contents |-> made.arrays[made.array]]>>)

\* EmbeddingGenerator.generate_embedding
generate_embedding(self, h, image_path, inference_ok) ==
  IF ~has_ml_deps
  THEN LET made == ndarray_new(h, MockEmbedding(hash_seed, get_image_hash(image_path)))
       IN  GenReturned(self, made.arrays, <<made.array>>, <<>>, <<>>)
  ELSE IF model = "none" THEN GenRaised(self, h)
  ELSE LET image_hash == get_image_hash(image_path)
           got == EmbeddingCache_get(self, h, image_hash)
       IN  IF got.ret # NoArray
           THEN GenReturned(got.self, got.arrays, <<got.ret>>, <<>>, <<>>)
           ELSE IF ~IsLoadable(image_path, corrupt)
           THEN LET z == zeros(h) IN GenReturned(self, z.arrays, <<z.array>>, <<>>, <<>>)
           ELSE IF ~inference_ok
           THEN LET z == zeros(h)
                IN  GenReturned(self, z.arrays, <<z.array>>, <<<<image_path>>>>, <<>>)
           ELSE LET made == ndarray_new(h, encode_image(image_path))
                    put == EmbeddingCache_put(self, made.arrays, image_hash, made.array)
                IN  GenReturned(put.self, put.arrays, <<made.array>>, <<<<image_path>>>>,
                                <<[key |-> image_hash, contents |-> encode_image(image_path)]>>)

\* LET x == v IN F(x), with v computed once before F is entered.
Bind(v, F(_)) == CHOOSE r \in {F(x) : x \in {v}} : TRUE

\* The first loop of generate_embeddings_batch: one cache.get per path, a hit
\* fills the slot, a miss leaves None and notes the index.
RECURSIVE CheckCache(_, _, _, _)
CheckCache(self, h, image_paths, i) ==
  IF i > Len(image_paths)
  THEN [self |-> self, arrays |-> h, embeddings |-> <<>>, uncached_indices |-> <<>>]
  ELSE Bind(EmbeddingCache_get(self, h, get_image_hash(image_paths[i])), LAMBDA got :
       Bind(CheckCache(got.self, got.arrays, image_paths, i + 1), LAMBDA rest :
         [self |-> rest.self, arrays |-> rest.arrays,
          embeddings |-> <<got.ret>> \o rest.embeddings,
          uncached_indices |-> (IF got.ret = NoArray THEN <<i>> ELSE <<>>)
                                 \o rest.uncached_indices]))

\* A store that takes the position among the misses for the position in the batch.
OriginalIndexUnmapped(uncached_indices, path_idx) == path_idx

\* original_idx = uncached_indices[path_idx]
OriginalIndex(uncached_indices, path_idx) == uncached_indices[path_idx]

\* The store loop: inferred row i goes to the slot of its path and into the
\* cache under that path's fingerprint.
RECURSIVE StoreResults(_, _, _, _, _, _, _)
StoreResults(self, h, embs, uncached_paths, uncached_indices, valid_indices, i) ==
  IF i > Len(valid_indices)
  THEN [self |-> self, arrays |-> h, embeddings |-> embs, puts |-> <<>>]
  ELSE LET path_idx == valid_indices[i]
           original_idx == OriginalIndex(uncached_indices, path_idx)
           image_hash == get_image_hash(uncached_paths[path_idx])
       IN  Bind(ndarray_new(h, encode_image(uncached_paths[path_idx])), LAMBDA embedding_np :
           Bind(EmbeddingCache_put(self, embedding_np.arrays, image_hash, embedding_np.array), LAMBDA put :
           Bind([embs EXCEPT ![original_idx] = embedding_np.array], LAMBDA stored :
           Bind(StoreResults(put.self, put.arrays, stored, uncached_paths, uncached_indices, valid_indices, i + 1), LAMBDA rest :
             [rest EXCEPT !.puts =
                <<[key |-> image_hash, contents |-> encode_image(uncached_paths[path_idx])]>> \o @]))))

\* Every slot still None gets its own zero array.
RECURSIVE FillZeros(_, _, _)
FillZeros(h, embs, i) ==
  IF i > Len(embs) THEN [arrays |-> h, embeddings |-> embs]
  ELSE IF embs[i] # NoArray THEN FillZeros(h, embs, i + 1)
  ELSE Bind(zeros(h), LAMBDA z :
       Bind([embs EXCEPT ![i] = z.array], LAMBDA filled :
         FillZeros(z.arrays, filled, i + 1)))

\* The positions k of uncached_paths whose image loads, in order.
ValidIndices(uncached_paths) ==
  SelectSeq(Indices(Len(uncached_paths)), LAMBDA k : IsLoadable(uncached_paths[k], corrupt))

\* EmbeddingGenerator.generate_embeddings_batch
generate_embeddings_batch(self, h, image_paths, inference_ok) ==
  IF model = "none" THEN GenRaised(self, h)
  ELSE Bind(CheckCache(self, h, image_paths, 1), LAMBDA checked :
       Bind([k \in 1..Len(checked.uncached_indices) |-> image_paths[checked.uncached_indices[k]]], LAMBDA uncached_paths :
       Bind(ValidIndices(uncached_paths), LAMBDA valid_indices :
       Bind([k \in 1..Len(valid_indices) |-> uncached_paths[valid_indices[k]]], LAMBDA batch :
       Bind(IF Len(batch) > 0 /\ inference_ok
            THEN StoreResults(checked.self, checked.arrays, checked.embeddings,
                              uncached_paths, checked.uncached_indices, valid_indices, 1)
            ELSE [self |-> checked.self, arrays |-> checked.arrays,
                  embeddings |-> checked.embeddings, puts |-> <<>>], LAMBDA stored :
       Bind(FillZeros(stored.arrays, stored.embeddings, 1), LAMBDA filled :
         GenReturned(stored.self, filled.arrays, filled.embeddings,
                     IF Len(batch) > 0 THEN <<batch>> ELSE <<>>, stored.puts)))))))

\* The contents of a list of arrays.
Contents(h, refs) == [i \in 1..Len(refs) |-> h[refs[i]]]

EmbedInit ==
  /\ EngineInit /\ RankIdle /\ SimIdle /\ AnalysisIdle /\ ServiceIdle
  /\ held = NoneHeld /\ cache_call = NoCall /\ clock = 0 /\ last_use = [k \in KeyPool |-> 0]
  /\ \E m \in 1..MaxCacheSize : cache = EmbeddingCache(m)
  /\ arrays = <<>>
  /\ has_ml_deps \in BOOLEAN
  /\ hash_seed \in (IF has_ml_deps THEN {0} ELSE {0, 1})
  /\ model = "none"
  /\ corrupt \in SUBSET PathPool
  /\ gen_call = NoCall

GenLive(self, refs) ==
  ({self.cache[k] : k \in DOMAIN self.cache} \cup {refs[i] : i \in 1..Len(refs)}) \ {NoArray}

\* initialize(): loads the CLIP model when the ML dependencies are present;
\* without them it returns at once and model stays None.
Initialize ==
  /\ gen_call = NoCall /\ model = "none" /\ has_ml_deps
  /\ model' = "loaded"
  /\ UNCHANGED <<serviceVars, has_ml_deps, hash_seed, corrupt, gen_call, cacheVars,
                 engineVars, rankVars, simVars, analysisVars>>

\* await embedding_generator.generate_embedding(image_path)
GenerateEmbedding(image_path, inference_ok) ==
  /\ gen_call = NoCall
  /\ \E out \in {generate_embedding(cache, arrays, image_path, inference_ok)} :
         /\ cache' = out.self
         /\ arrays' = Collect(out.arrays, GenLive(out.self, out.ret))
         /\ gen_call' = [op |-> "generate_embedding", image_paths |-> <<image_path>>,
                         raised |-> out.raised, ret |-> out.ret,
                         inference_ok |-> inference_ok,
                         inference_calls |-> out.inference_calls, puts |-> out.puts]
  /\ UNCHANGED <<serviceVars, has_ml_deps, hash_seed, model, corrupt, held, cache_call, clock, last_use,
                 engineVars, rankVars, simVars, analysisVars>>

\* await embedding_generator.generate_embeddings_batch(image_paths)
GenerateEmbeddingsBatch(image_paths, inference_ok) ==
  /\ gen_call = NoCall
  /\ \E out \in {generate_embeddings_batch(cache, arrays, image_paths, inference_ok)} :
         /\ cache' = out.self
         /\ arrays' = Collect(out.arrays, GenLive(out.self, out.ret))
         /\ gen_call' = [op |-> "generate_embeddings_batch", image_paths |-> image_paths,
                         raised |-> out.raised, ret |-> out.ret,
                         inference_ok |-> inference_ok,
                         inference_calls |-> out.inference_calls, puts |-> out.puts]
  /\ UNCHANGED <<serviceVars, has_ml_deps, hash_seed, model, corrupt, held, cache_call, clock, last_use,
                 engineVars, rankVars, simVars, analysisVars>>

\* embedding_generator.clear_cache()
ClearCache ==
  /\ gen_call = NoCall /\ cache.cache # <<>>
  /\ cache' = EmbeddingCache_clear(cache)
  /\ arrays' = <<>>
  /\ UNCHANGED <<serviceVars, genVars, held, cache_call, clock, last_use,
                 engineVars, rankVars, simVars, analysisVars>>

\* The caller is done with what the call returned.
GenReturn ==
  /\ gen_call # NoCall
  /\ gen_call' = NoCall
  /\ arrays' = Collect(arrays, GenLive(cache, <<>>))
  /\ UNCHANGED <<serviceVars, has_ml_deps, hash_seed, model, corrupt, cache, held, cache_call, clock,
                 last_use, engineVars, rankVars, simVars, analysisVars>>

\* Lists of paths of length n.
PathLists(n) == SeqsOf(PathPool, n)

\* Lists of distinct paths of length n, the files of one session.
SessionFiles(n) == {l \in PathLists(n) : \A i, j \in 1..n : i # j => l[i] # l[j]}

\* POST /api/analyze: quality analysis and batch embedding of the session's
\* files, ImageData with id = path.stem, then the ranking.  No files is a
\* 400; any exception on the way is a 500.
AnalyzeImages(image_paths, inference_ok, duplicate_threshold) ==
  /\ gen_call = NoCall
  /\ IF Len(image_paths) = 0
     THEN /\ gen_call' = [op |-> "analyze_images", image_paths |-> image_paths,
                          inference_ok |-> inference_ok, status |-> 400,
                          quality_results |-> <<>>, embeddings |-> <<>>,
                          inference_calls |-> <<>>, response |-> Raised]
          /\ UNCHANGED <<cache, arrays>>
     ELSE \E out \in {generate_embeddings_batch(cache, arrays, image_paths, inference_ok)} :
            LET quality_results == analyze_images_parallel(image_paths, corrupt)
                embs == Contents(out.arrays, out.ret)
                images == [i \in 1..Len(image_paths) |->
                             ImageData(PathStem(image_paths[i]),
                                       quality_results[i].composite_score,
                                       quality_results[i].resolution)]
                recommendations ==
                  IF out.raised THEN Raised
                  ELSE generate_recommendations(images, embs, duplicate_threshold,
                         quality_weight, diversity_weight, duplicate_penalty)
            IN  /\ cache' = out.self
                /\ arrays' = Collect(out.arrays, GenLive(out.self, <<>>))
                /\ gen_call' = [op |-> "analyze_images", image_paths |-> image_paths,
                                inference_ok |-> inference_ok,
                                status |-> IF recommendations.raised THEN 500 ELSE 200,
                                quality_results |-> quality_results, embeddings |-> embs,
                                inference_calls |-> out.inference_calls,
                                response |-> recommendations]
  /\ UNCHANGED <<serviceVars, has_ml_deps, hash_seed, model, corrupt, held, cache_call, clock, last_use,
                 engineVars, rankVars, simVars, analysisVars>>

EmbedNext ==
  \/ Initialize
  \/ gen_call = NoCall /\ \E path \in PathPool, ok \in BOOLEAN : GenerateEmbedding(path, ok)
  \/ /\ gen_call = NoCall
     /\ \E n \in 0..MaxImages : \E image_paths \in PathLists(n), ok \in BOOLEAN :
          GenerateEmbeddingsBatch(image_paths, ok)
  \/ /\ gen_call = NoCall
     /\ \E n \in 0..MaxImages : \E image_paths \in SessionFiles(n), ok \in BOOLEAN :
          AnalyzeImages(image_paths, ok, DefaultThreshold)
  \/ ClearCache
  \/ GenReturn

SpecEmbed == EmbedInit /\ [][EmbedNext]_vars

\* ------------------------------------------ quality metrics (SpecQuality)
\* Measurements on either side of every cut of the flag and suggestion rules.
BlurPool == {50, 200, 400, 600, 900}
BrightnessPool == {40, 70, 90, 128, 160, 180, 210}
ContrastPool == {10, 30, 40, 60}
ResolutionPool ==
  {<<0, 0>>, <<640, 480>>, <<1000, 700>>, <<1600, 1000>>, <<1920, 1080>>,
   <<2000, 1500>>, <<1500, 2000>>}

QualityInit ==
  /\ EngineInit /\ RankIdle /\ SimIdle /\ AnalysisIdle /\ CacheIdle /\ GenIdle
  /\ ValidationIdle /\ SessionIdle /\ CleanupIdle /\ PipelineIdle /\ ConcIdle
  /\ quality_metrics = NoMetrics
  /\ \E b \in BlurPool, l \in BrightnessPool, c \in ContrastPool, r \in ResolutionPool :
       measurement = [blur_score |-> b, brightness |-> l, contrast |-> c, resolution |-> r]

\* QualityMetrics(blur_score, brightness, contrast, resolution)
NewQualityMetrics ==
  /\ quality_metrics = NoMetrics
  /\ quality_metrics' =
       [built |-> TRUE,
        object |-> QualityMetrics(measurement.blur_score, measurement.brightness,
                                  measurement.contrast, measurement.resolution)]
  /\ UNCHANGED <<measurement, validationVars, sessionVars, cleanupVars, pipelineVars, concVars, embedVars, engineVars, rankVars, simVars, analysisVars>>

QualityNext == NewQualityMetrics

SpecQuality == QualityInit /\ [][QualityNext]_vars

\* ---------------------------------------- upload validation (SpecValidate)
ALLOWED_EXTENSIONS == {".jpg", ".jpeg", ".png", ".webp"}
ALLOWED_MIMETYPES == {"image/jpeg", "image/png", "image/webp"}

\* Path(filename).suffix.lower() for the file names of the pool.
Extension(filename) ==
  CASE filename = "photo.jpg" -> ".jpg"
    [] filename = "PHOTO.JPG" -> ".jpg"
    [] filename = "photo.png" -> ".png"
    [] filename = "notes.txt" -> ".txt"
    [] filename = "" -> ""

\* expected_formats.get(extension)
ExpectedFormat(extension) ==
  CASE extension \in {".jpg", ".jpeg"} -> "jpeg"
    [] extension = ".png" -> "png"
    [] extension = ".webp" -> "webp"
    [] OTHER -> "None"

\* The local name e of validate_file holds no exception.
Unbound == "unbound"

\* How a block ends: normally, or with an exception of class exc carrying
\* message; e is what the local name e holds when the block is left.
Completes == [exc |-> "none", message |-> "", e |-> Unbound]
Raises(exc, message) == [exc |-> exc, message |-> message, e |-> Unbound]

\* _validate_magic_bytes
validate_magic_bytes(content) == content.magic \in {"jpeg", "png", "webp"}

\* Step 6 of validate_file, the inner try with its handler: `except Exception
\* as e` re-raises a SecurityError and wraps everything else in one; leaving
\* the handler unbinds e again.
OpenAndCheckImage(content, extension) ==
  IF ~content.opens THEN Raises("SecurityError", "Invalid image file")
  ELSE IF content.size[1] > MaxDimension \/ content.size[2] > MaxDimension
  THEN Raises("SecurityError", "Image dimensions too large")
  ELSE IF content.size[1] < MinDimension \/ content.size[2] < MinDimension
  THEN Raises("SecurityError", "Image dimensions too small")
  ELSE IF content.format # ExpectedFormat(extension)
  THEN Raises("SecurityError", "Image format mismatch")
  ELSE Completes

\* The body of the outer try of validate_file, steps 1 to 6.
ValidateFileBody(file) ==
  IF file.filename = "" THEN Raises("SecurityError", "Filename is required")
  ELSE IF Extension(file.filename) \notin ALLOWED_EXTENSIONS
  THEN Raises("SecurityError", "Invalid file extension")
  ELSE IF file.content_type \notin ALLOWED_MIMETYPES
  THEN Raises("SecurityError", "Invalid content type")
  ELSE IF ~file.readable THEN Raises("Exception", "read failed")
  ELSE IF file.size > MaxFileSize THEN Raises("SecurityError", "File too large")
  ELSE IF file.size < MinFileSize
  THEN Raises("SecurityError", "File too small to be a valid image")
  ELSE IF ~validate_magic_bytes(file.content)
  THEN Raises("SecurityError", "Invalid file format (magic bytes check failed)")
  ELSE OpenAndCheckImage(file.content, Extension(file.filename))

\* SecureFileValidator.validate_file: the handler `except SecurityError:`
\* binds no name and evaluates str(e) for its log line, which raises
\* UnboundLocalError when e holds nothing; `except Exception as e` wraps the
\* exception in a SecurityError.
validate_file(file) ==
  LET body == ValidateFileBody(file)
  IN  IF body.exc = "none" THEN body
      ELSE IF body.exc = "SecurityError"
      THEN IF body.e = Unbound
           THEN Raises("UnboundLocalError", "cannot access local variable 'e'")
           ELSE body
      ELSE Raises("SecurityError", "Validation failed")

\* validate_upload_file: the file, or HTTPException(400, str(e)) for a
\* SecurityError; any other exception passes through.
validate_upload_file(file) ==
  LET checked == validate_file(file)
  IN  IF checked.exc = "none" THEN [kind |-> "returned", file |-> file]
      ELSE IF checked.exc = "SecurityError"
      THEN [kind |-> "HTTPException", status_code |-> 400, detail |-> checked.message]
      ELSE [kind |-> checked.exc, detail |-> checked.message]

\* File contents: what the magic bytes say, whether PIL opens them, and the
\* format and size PIL reports.
ContentPool ==
  {[magic |-> "jpeg", opens |-> TRUE, format |-> "jpeg", size |-> <<800, 600>>],
   [magic |-> "png", opens |-> TRUE, format |-> "png", size |-> <<800, 600>>],
   [magic |-> "jpeg", opens |-> TRUE, format |-> "jpeg", size |-> <<50, 50>>],
   [magic |-> "jpeg", opens |-> TRUE, format |-> "jpeg", size |-> <<5000, 5000>>],
   [magic |-> "jpeg", opens |-> FALSE, format |-> "None", size |-> <<0, 0>>],
   [magic |-> "none", opens |-> FALSE, format |-> "None", size |-> <<0, 0>>]}
FilenamePool == {"photo.jpg", "PHOTO.JPG", "photo.png", "notes.txt", ""}
ContentTypePool == {"image/jpeg", "image/png", "text/plain"}
FileSizePool == {50, 5000, 9000000}

ValidateInit ==
  /\ EngineInit /\ RankIdle /\ SimIdle /\ AnalysisIdle /\ CacheIdle /\ GenIdle
  /\ QualityIdle /\ SessionIdle /\ CleanupIdle /\ PipelineIdle /\ ConcIdle
  /\ validation = NoOutcome
  /\ \E name \in FilenamePool, type \in ContentTypePool, size \in FileSizePool,
        content \in ContentPool, readable \in BOOLEAN :
       upload = [filename |-> name, content_type |-> type, size |-> size,
                 content |-> content, readable |-> readable]

\* await validate_upload_file(file)
ValidateUploadFile ==
  /\ validation = NoOutcome
  /\ validation' = validate_upload_file(upload)
  /\ UNCHANGED <<upload, qualityVars, sessionVars, cleanupVars, pipelineVars, concVars, embedVars, engineVars, rankVars, simVars, analysisVars>>

ValidateNext == ValidateUploadFile

SpecValidate == ValidateInit /\ [][ValidateNext]_vars

\* ------------------------------------------ session manager (SpecSession)
SessionIdPool == {"session-1", "session-2"}
\* The upload route stores every file under a new uuid4 name: the k-th name.
StoredName(k) ==
  CASE k = 1 -> "file-1.jpg" [] k = 2 -> "file-2.jpg" [] k = 3 -> "file-3.jpg"
    [] OTHER -> "file-4.jpg"
OriginalName == "photo.jpg"
None == "None"
\* get_session's None.
NoSession == [session_id |-> None]

\* datetime.isoformat() and datetime.fromisoformat().
isoformat(created_at) == [iso |-> created_at]
fromisoformat(text) == text.iso

\* A metadata dict: {} or {'filename_map': {...}}, the map as a set of pairs.
EmptyMetadata == [has_filename_map |-> FALSE, filename_map |-> {}]

\* SessionData.__init__ and SessionData.to_dict
SessionData(session_id, created_at) ==
  [session_id |-> session_id, created_at |-> created_at, files |-> <<>>,
   metadata |-> EmptyMetadata]
to_dict(session) ==
  [session_id |-> session.session_id, created_at |-> isoformat(session.created_at),
   files |-> session.files, metadata |-> session.metadata]

\* metadata.json: absent, or the JSON text of a dict.
NoMetadataFile == [written |-> FALSE]
json_dump(dict) == [written |-> TRUE, text |-> dict]
json_load(file) == file.text

\* A session directory: its metadata.json and the image files in it.
EmptyDirectory == [metadata_file |-> NoMetadataFile, files |-> {}]

\* session.metadata['filename_map'][filename] = original_filename
SetFilenameMap(metadata, filename, original_filename) ==
  [has_filename_map |-> TRUE,
   filename_map |-> {pair \in metadata.filename_map : pair[1] # filename}
                      \cup {<<filename, original_filename>>}]

\* SessionManager._load_session_from_disk: nothing without a metadata.json,
\* else a SessionData rebuilt from its created_at, files and metadata.
load_session_from_disk(table, tree, session_id) ==
  IF session_id \notin DOMAIN tree THEN table
  ELSE IF ~tree[session_id].metadata_file.written THEN table
  ELSE LET metadata == json_load(tree[session_id].metadata_file)
           session_data ==
             [SessionData(session_id, fromisoformat(metadata.created_at))
                EXCEPT !.files = metadata.files, !.metadata = metadata.metadata]
       IN  (session_id :> session_data) @@ table

\* SessionManager.get_session: an id not in memory is first looked up on disk.
get_session(table, tree, session_id) ==
  LET loaded == IF session_id \notin DOMAIN table
                THEN load_session_from_disk(table, tree, session_id)
                ELSE table
  IN  [sessions |-> loaded,
       ret |-> IF session_id \in DOMAIN loaded THEN loaded[session_id] ELSE NoSession]

\* SessionManager.add_file_to_session: the name is appended to the session's
\* files; the filename map is updated and metadata.json rewritten only when
\* an original filename is given.
add_file_to_session(table, tree, session_id, filename, original_filename) ==
  LET got == get_session(table, tree, session_id)
  IN  IF got.ret = NoSession THEN [sessions |-> got.sessions, disk |-> tree]
      ELSE IF original_filename = None
      THEN [sessions |-> [got.sessions EXCEPT ![session_id].files = Append(@, filename)],
            disk |-> tree]
      ELSE LET session ==
                 [got.ret EXCEPT
                    !.files = Append(@, filename),
                    !.metadata = SetFilenameMap(@, filename, original_filename)]
           IN  [sessions |-> [got.sessions EXCEPT ![session_id] = session],
                disk |-> [tree EXCEPT ![session_id].metadata_file = json_dump(to_dict(session))]]

\* storage_service.delete_session: with S3 the objects under the session's
\* prefix; locally the directory under the storage service's own upload_dir,
\* which is the manager's directory only when both were given the same path.
delete_session(config, tree, bucket, session_id) ==
  IF ~config.use_s3 /\ config.same_dir
  THEN [disk |-> DictDelete(tree, session_id), store |-> bucket]
  ELSE [disk |-> tree, store |-> DictDelete(bucket, session_id)]

\* The storage configurations: local storage in the manager's directory,
\* local storage elsewhere (a manager built with its own upload_dir), S3.
StorageConfigs ==
  {LocalStorage, [use_s3 |-> FALSE, same_dir |-> FALSE], [use_s3 |-> TRUE, same_dir |-> FALSE]}

SessionInit ==
  /\ EngineInit /\ RankIdle /\ SimIdle /\ AnalysisIdle /\ CacheIdle /\ GenIdle
  /\ QualityIdle /\ ValidationIdle /\ CleanupIdle /\ PipelineIdle /\ ConcIdle
  /\ storage_config \in StorageConfigs
  /\ sessions = <<>> /\ disk = <<>> /\ store = <<>>
  /\ issued = {} /\ session_call = NoCall

SessionFrame ==
  UNCHANGED <<storage_config, qualityVars, validationVars, cleanupVars, pipelineVars, concVars, embedVars, engineVars,
              rankVars, simVars, analysisVars>>

\* await session_manager.create_session(): a fresh uuid4, its directory, the
\* in-memory entry and metadata.json.
CreateSession(session_id) ==
  /\ session_id \notin issued
  /\ issued' = issued \cup {session_id}
  /\ LET session_data == SessionData(session_id, 0)
     IN  /\ sessions' = (session_id :> session_data) @@ sessions
         /\ disk' = (session_id :> [EmptyDirectory EXCEPT
                                      !.metadata_file = json_dump(to_dict(session_data))])
                      @@ disk
  /\ session_call' = [op |-> "create_session", session_id |-> session_id, ret |-> session_id]
  /\ UNCHANGED store
  /\ SessionFrame

\* await session_manager.get_session(session_id)
GetSession(session_id) ==
  /\ LET got == get_session(sessions, disk, session_id)
     IN  /\ sessions' = got.sessions
         /\ session_call' = [op |-> "get_session", session_id |-> session_id, ret |-> got.ret]
  /\ UNCHANGED <<disk, store, issued>>
  /\ SessionFrame

\* await storage_service.save_file(session_id, filename, content), as the
\* upload route does for a session it has just created; filename is new.
SaveFile(session_id) ==
  /\ session_id \in DOMAIN sessions
  /\ LET same == ~storage_config.use_s3 /\ storage_config.same_dir
         saved == IF same THEN disk[session_id].files
                  ELSE IF session_id \in DOMAIN store THEN store[session_id] ELSE {}
         filename == StoredName(Cardinality(saved) + 1)
     IN  /\ Cardinality(saved) < MaxFiles
         /\ IF same
            THEN /\ disk' = [disk EXCEPT ![session_id].files = @ \cup {filename}]
                 /\ UNCHANGED store
            ELSE /\ store' = (session_id :> (saved \cup {filename})) @@ store
                 /\ UNCHANGED disk
         /\ session_call' = [op |-> "save_file", session_id |-> session_id, ret |-> filename]
  /\ UNCHANGED <<sessions, issued>>
  /\ SessionFrame

\* await session_manager.add_file_to_session(session_id, filename, original_filename),
\* filename being the next new name for that session.
AddFileToSession(session_id, original_filename) ==
  LET known == get_session(sessions, disk, session_id).ret
      filename == StoredName(IF known = NoSession THEN 1 ELSE Len(known.files) + 1)
  IN  /\ known # NoSession => Len(known.files) < MaxFiles
      /\ LET added == add_file_to_session(sessions, disk, session_id, filename,
                                          original_filename)
         IN  sessions' = added.sessions /\ disk' = added.disk
      /\ session_call' = [op |-> "add_file_to_session", session_id |-> session_id,
                          filename |-> filename, original_filename |-> original_filename,
                          ret |-> None]
      /\ UNCHANGED <<store, issued>>
      /\ SessionFrame

\* await session_manager.cleanup_session(session_id): False, with nothing
\* removed from memory, when the storage service raises.
CleanupSession(session_id, storage_ok) ==
  /\ IF storage_ok
     THEN LET deleted == delete_session(storage_config, disk, store, session_id)
          IN  /\ disk' = deleted.disk /\ store' = deleted.store
              /\ sessions' = DictDelete(sessions, session_id)
     ELSE UNCHANGED <<sessions, disk, store>>
  /\ session_call' = [op |-> "cleanup_session", session_id |-> session_id,
                      existed |-> session_id \in DOMAIN sessions, ret |-> storage_ok]
  /\ UNCHANGED issued
  /\ SessionFrame

\* The process is restarted: a new SessionManager with an empty table over
\* the same upload_dir.
Restart ==
  /\ sessions # <<>>
  /\ sessions' = <<>>
  /\ session_call' = [op |-> "restart"]
  /\ UNCHANGED <<disk, store, issued>>
  /\ SessionFrame

SessionNext ==
  \/ \E id \in SessionIdPool : CreateSession(id)
  \/ \E id \in SessionIdPool : GetSession(id)
  \/ \E id \in SessionIdPool : SaveFile(id)
  \/ \E id \in SessionIdPool, original \in {None, OriginalName} :
       AddFileToSession(id, original)
  \/ \E id \in SessionIdPool, ok \in BOOLEAN : CleanupSession(id, ok)
  \/ Restart

SpecSession == SessionInit /\ [][SessionNext]_vars

\* --------------------------------------------- cleanup task (SpecCleanup)
\* An asyncio task running _cleanup_loop: suspended in asyncio.sleep until it
\* is done; cancel() marks it, and the CancelledError is raised in the loop
\* the next time the task runs. passes counts its completed cleanup passes.
NewLoopTask == [done |-> FALSE, cancel_requested |-> FALSE, outcome |-> "none", passes |-> 0]
\* task.done(), and the tasks that are not done.
Done(tasks, task) == tasks[task].done
Alive(tasks) == {k \in 1..Len(tasks) : ~tasks[k].done}
\* Cleanup passes followed per task.
MaxPasses == 1

CleanupInit ==
  /\ EngineInit /\ RankIdle /\ SimIdle /\ AnalysisIdle /\ CacheIdle /\ GenIdle
  /\ QualityIdle /\ ValidationIdle /\ SessionIdle /\ PipelineIdle /\ ConcIdle
  /\ CleanupIdle

CleanupFrame ==
  UNCHANGED <<qualityVars, validationVars, sessionVars, pipelineVars, concVars, embedVars, engineVars,
              rankVars, simVars, analysisVars>>

\* A start_cleanup_task that creates a task whatever the state of the last one.
StartCleanupTaskUnguarded ==
  /\ Len(loop_tasks) < MaxOps
  /\ loop_tasks' = Append(loop_tasks, NewLoopTask)
  /\ cleanup_task' = Len(loop_tasks) + 1
  /\ cleanup_call' = [op |-> "start_cleanup_task", task |-> Len(loop_tasks) + 1]
  /\ UNCHANGED stop_call
  /\ CleanupFrame

\* await start_cleanup_task(): a task is created only when there is none or
\* the last one is done. The call does not suspend.
StartCleanupTask ==
  /\ IF cleanup_task = NoTask \/ Done(loop_tasks, cleanup_task)
     THEN /\ Len(loop_tasks) < MaxOps
          /\ loop_tasks' = Append(loop_tasks, NewLoopTask)
          /\ cleanup_task' = Len(loop_tasks) + 1
     ELSE UNCHANGED <<loop_tasks, cleanup_task>>
  /\ cleanup_call' = [op |-> "start_cleanup_task", task |-> cleanup_task']
  /\ UNCHANGED stop_call
  /\ CleanupFrame

\* await stop_cleanup_task(), up to its await: a task that is not done is
\* cancelled and awaited; otherwise the call returns at once.
StopCleanupTask ==
  /\ stop_call.pc = "idle"
  /\ IF cleanup_task # NoTask /\ ~Done(loop_tasks, cleanup_task)
     THEN /\ loop_tasks' = [loop_tasks EXCEPT ![cleanup_task].cancel_requested = TRUE]
          /\ stop_call' = [pc |-> "awaiting", task |-> cleanup_task]
          /\ UNCHANGED cleanup_call
     ELSE /\ cleanup_call' = [op |-> "stop_cleanup_task", task |-> cleanup_task]
          /\ UNCHANGED <<loop_tasks, stop_call>>
  /\ UNCHANGED cleanup_task
  /\ CleanupFrame

\* stop_cleanup_task resumes when the awaited task is done, swallows the
\* CancelledError and returns.
StopReturns ==
  /\ stop_call.pc = "awaiting"
  /\ Done(loop_tasks, stop_call.task)
  /\ stop_call' = NotStopping
  /\ cleanup_call' = [op |-> "stop_cleanup_task", task |-> stop_call.task]
  /\ UNCHANGED <<cleanup_task, loop_tasks>>
  /\ CleanupFrame

\* _cleanup_loop wakes from asyncio.sleep, runs cleanup_expired_sessions and
\* sleeps again.
LoopPass(task) ==
  /\ ~Done(loop_tasks, task) /\ ~loop_tasks[task].cancel_requested
  /\ loop_tasks[task].passes < MaxPasses
  /\ loop_tasks' = [loop_tasks EXCEPT ![task].passes = @ + 1]
  /\ UNCHANGED <<cleanup_task, stop_call, cleanup_call>>
  /\ CleanupFrame

\* cleanup_expired_sessions raises (the upload directory cannot be listed):
\* the exception leaves _cleanup_loop and the task is done.
LoopFails(task) ==
  /\ ~Done(loop_tasks, task) /\ ~loop_tasks[task].cancel_requested
  /\ loop_tasks' = [loop_tasks EXCEPT ![task].done = TRUE, ![task].outcome = "exception"]
  /\ UNCHANGED <<cleanup_task, stop_call, cleanup_call>>
  /\ CleanupFrame

\* The CancelledError is raised at the sleep, logged and re-raised: the task
\* is done, cancelled.
LoopCancelled(task) ==
  /\ ~Done(loop_tasks, task) /\ loop_tasks[task].cancel_requested
  /\ loop_tasks' = [loop_tasks EXCEPT ![task].done = TRUE, ![task].outcome = "cancelled"]
  /\ UNCHANGED <<cleanup_task, stop_call, cleanup_call>>
  /\ CleanupFrame

CleanupNext ==
  \/ StartCleanupTask
  \/ StopCleanupTask
  \/ StopReturns
  \/ \E task \in 1..Len(loop_tasks) : LoopPass(task)
  \/ \E task \in 1..Len(loop_tasks) : LoopFails(task)
  \/ \E task \in 1..Len(loop_tasks) : LoopCancelled(task)

SpecCleanup == CleanupInit /\ [][CleanupNext]_vars

\* ------------------------------------------ analysis request (SpecPipeline)
\* The handler of POST /api/analyze from the creation of its two tasks to the
\* end of the request. A task holds the images it has produced a result for.
\* The images of the batch, by position in image_paths.
Batch(image_count) == 1..image_count
\* A task the event loop has not completed: created, or suspended in an await.
InFlight(task) == task.state \in {"pending", "running"}
NewTask == [state |-> "pending", cancel_requested |-> FALSE, images |-> {}]

PipelineInit ==
  /\ EngineInit /\ RankIdle /\ SimIdle /\ AnalysisIdle /\ CacheIdle /\ GenIdle
  /\ QualityIdle /\ ValidationIdle /\ SessionIdle /\ CleanupIdle /\ ConcIdle
  /\ PipelineIdle

PipelineFrame ==
  UNCHANGED <<qualityVars, validationVars, sessionVars, cleanupVars, concVars, embedVars,
              engineVars, rankVars, simVars, analysisVars>>

\* analyze_images up to `await quality_task`: the session has image_count
\* images, both tasks are created, and the handler suspends on the first.
StartAnalysis(image_count) ==
  /\ analyze_images.pc = "idle"
  /\ quality_task' = NewTask
  /\ embedding_task' = NewTask
  /\ analyze_images' = [analyze_images EXCEPT !.pc = "await_quality", !.image_count = image_count]
  /\ PipelineFrame

\* A handler that ranks as soon as quality_task has returned, with whatever
\* embedding_task has produced by then.
AfterQualityOnly(handler, quality, embedding) ==
  [handler EXCEPT !.pc = "ranking", !.quality_results = quality.images,
              !.embeddings = embedding.images]

\* What the handler does with the result of embedding_task once quality_task
\* has returned: rank when it has it, answer 500 when the task raised, and
\* suspend on the task otherwise.
AfterQuality(handler, quality, embedding) ==
  CASE embedding.state = "done" ->
         [handler EXCEPT !.pc = "ranking", !.quality_results = quality.images,
                     !.embeddings = embedding.images]
    [] embedding.state = "failed" -> [handler EXCEPT !.pc = "error_500"]
    [] OTHER -> [handler EXCEPT !.pc = "await_embedding", !.quality_results = quality.images]

\* analyze_images_parallel: the gather runs analyze_image_quality for every
\* image; each returns metrics (default metrics when the analysis fails).
QualityAnalysesImage(i) ==
  /\ InFlight(quality_task) /\ ~quality_task.cancel_requested
  /\ i \in Batch(analyze_images.image_count) \ quality_task.images
  /\ quality_task' = [quality_task EXCEPT !.state = "running", !.images = @ \cup {i}]
  /\ UNCHANGED <<analyze_images, embedding_task>>
  /\ PipelineFrame

\* The gather has every result: analyze_images_parallel returns the list.
QualityTaskReturns ==
  /\ InFlight(quality_task) /\ ~quality_task.cancel_requested
  /\ quality_task.images = Batch(analyze_images.image_count)
  /\ quality_task' = [quality_task EXCEPT !.state = "done"]
  /\ UNCHANGED <<analyze_images, embedding_task>>
  /\ PipelineFrame

\* generate_embeddings_batch up to its await: it raises RuntimeError when the
\* model is not initialized, and otherwise suspends in the inference thread.
EmbeddingTaskStarts(initialized) ==
  /\ embedding_task.state = "pending" /\ ~embedding_task.cancel_requested
  /\ embedding_task' = [embedding_task EXCEPT !.state = IF initialized THEN "running" ELSE "failed"]
  /\ UNCHANGED <<analyze_images, quality_task>>
  /\ PipelineFrame

\* generate_embeddings_batch returns one vector per path (a zero vector for
\* an image that failed).
EmbeddingTaskReturns ==
  /\ embedding_task.state = "running" /\ ~embedding_task.cancel_requested
  /\ embedding_task' = [embedding_task EXCEPT !.state = "done",
                                               !.images = Batch(analyze_images.image_count)]
  /\ UNCHANGED <<analyze_images, quality_task>>
  /\ PipelineFrame

\* `quality_results = await quality_task` returns; `await embedding_task`
\* returns, raises or suspends.
ResumeAfterQuality ==
  /\ analyze_images.pc = "await_quality" /\ quality_task.state = "done"
  /\ ~analyze_images.cancel_requested
  /\ analyze_images' = AfterQuality(analyze_images, quality_task, embedding_task)
  /\ UNCHANGED <<quality_task, embedding_task>>
  /\ PipelineFrame

\* `embeddings = await embedding_task` returns or raises; an exception is
\* answered by the handler with status 500.
ResumeAfterEmbedding ==
  /\ analyze_images.pc = "await_embedding" /\ embedding_task.state \in {"done", "failed"}
  /\ ~analyze_images.cancel_requested
  /\ analyze_images' = IF embedding_task.state = "done"
                THEN [analyze_images EXCEPT !.pc = "ranking", !.embeddings = embedding_task.images]
                ELSE [analyze_images EXCEPT !.pc = "error_500"]
  /\ UNCHANGED <<quality_task, embedding_task>>
  /\ PipelineFrame

\* generate_recommendations has run on the batch and the response is sent.
Respond ==
  /\ analyze_images.pc = "ranking"
  /\ analyze_images' = [analyze_images EXCEPT !.pc = "responded"]
  /\ UNCHANGED <<quality_task, embedding_task>>
  /\ PipelineFrame

\* The request's task is cancelled while it is suspended: asyncio passes the
\* cancellation to the task the handler is awaiting, and to no other.
CancelRequest ==
  /\ analyze_images.pc \in {"await_quality", "await_embedding"} /\ ~analyze_images.cancel_requested
  /\ analyze_images' = [analyze_images EXCEPT !.cancel_requested = TRUE]
  /\ IF analyze_images.pc = "await_quality"
     THEN /\ quality_task' = [quality_task EXCEPT !.cancel_requested = InFlight(quality_task)]
          /\ UNCHANGED embedding_task
     ELSE /\ embedding_task' = [embedding_task EXCEPT !.cancel_requested = InFlight(embedding_task)]
          /\ UNCHANGED quality_task
  /\ PipelineFrame

\* A task whose cancellation was requested ends cancelled.
QualityTaskCancelled ==
  /\ InFlight(quality_task) /\ quality_task.cancel_requested
  /\ quality_task' = [quality_task EXCEPT !.state = "cancelled"]
  /\ UNCHANGED <<analyze_images, embedding_task>>
  /\ PipelineFrame

EmbeddingTaskCancelled ==
  /\ InFlight(embedding_task) /\ embedding_task.cancel_requested
  /\ embedding_task' = [embedding_task EXCEPT !.state = "cancelled"]
  /\ UNCHANGED <<analyze_images, quality_task>>
  /\ PipelineFrame

\* The CancelledError reaches the handler; neither except clause catches it
\* (it is not an Exception), and the request ends without a response.
RequestCancelled ==
  /\ analyze_images.cancel_requested
  /\ \/ analyze_images.pc = "await_quality" /\ ~InFlight(quality_task)
     \/ analyze_images.pc = "await_embedding" /\ ~InFlight(embedding_task)
  /\ analyze_images' = [analyze_images EXCEPT !.pc = "cancelled"]
  /\ UNCHANGED <<quality_task, embedding_task>>
  /\ PipelineFrame

PipelineNext ==
  \/ \E image_count \in 1..MaxImages : StartAnalysis(image_count)
  \/ \E i \in 1..MaxImages : QualityAnalysesImage(i)
  \/ QualityTaskReturns
  \/ \E initialized \in BOOLEAN : EmbeddingTaskStarts(initialized)
  \/ EmbeddingTaskReturns
  \/ ResumeAfterQuality
  \/ ResumeAfterEmbedding
  \/ Respond
  \/ CancelRequest
  \/ QualityTaskCancelled
  \/ EmbeddingTaskCancelled
  \/ RequestCancelled

SpecPipeline == PipelineInit /\ [][PipelineNext]_vars

\* ------------------------------------- concurrent generator calls (SpecConc)
\* Two coroutines call the generator on one event loop.  A call runs without
\* interruption up to its `await asyncio.to_thread(...)` and again from there
\* to its return; the other call may run in between.  found_present tells, of
\* the last call that returned, whether a fingerprint it had missed was in
\* the cache when the call put it.
\* The keys a list of puts stored.
PutKeys(puts) == {puts[i].key : i \in 1..Len(puts)}
\* The arrays a suspended call holds, and all arrays in use.
HeldBy(suspended) == {suspended.embeddings[i] : i \in 1..Len(suspended.embeddings)} \ {NoArray}
ConcLive(self, cs) ==
  {self.cache[k] : k \in DOMAIN self.cache} \cup UNION {HeldBy(cs[c]) : c \in Callers}
\* The call returned: its caller keeps nothing of it.
Finished(found_present) == [NotCalled EXCEPT !.found_present = found_present]
\* The call is suspended in its inference.
Suspended(at, image_paths, refs, uncached_indices) ==
  [pc |-> at, image_paths |-> image_paths, embeddings |-> refs,
   uncached_indices |-> uncached_indices, found_present |-> FALSE]

\* The files the concurrent calls are made on.
ConcPathPool == {"img1.jpg", "img2.jpg"}

ConcInit ==
  /\ EngineInit /\ RankIdle /\ SimIdle /\ AnalysisIdle
  /\ QualityIdle /\ ValidationIdle /\ SessionIdle /\ CleanupIdle /\ PipelineIdle
  /\ ConcIdle
  /\ held = NoneHeld /\ cache_call = NoCall /\ clock = 0 /\ last_use = [k \in KeyPool |-> 0]
  /\ \E m \in 1..MaxCacheSize : cache = EmbeddingCache(m)
  /\ arrays = <<>>
  /\ has_ml_deps = TRUE /\ hash_seed = 0 /\ model = "loaded"
  /\ corrupt \in {{}, {"img2.jpg"}}
  /\ gen_call = NoCall

ConcFrame ==
  UNCHANGED <<qualityVars, validationVars, sessionVars, cleanupVars, pipelineVars,
              genVars, held, cache_call, clock, last_use,
              engineVars, rankVars, simVars, analysisVars>>

\* generate_embedding up to its await: a cache hit returns the copy, a file
\* that does not load returns the zero vector, a miss suspends in inference.
BeginEmbedding(c, image_path) ==
  /\ calls[c].pc = "idle"
  /\ \E got \in {EmbeddingCache_get(cache, arrays, get_image_hash(image_path))} :
       /\ cache' = got.self
       /\ calls' = [calls EXCEPT ![c] =
            IF got.ret # NoArray \/ ~IsLoadable(image_path, corrupt)
            THEN Finished(FALSE)
            ELSE Suspended("inference", <<image_path>>, <<NoArray>>, <<1>>)]
       /\ arrays' = Collect(got.arrays, ConcLive(got.self, calls'))
  /\ ConcFrame

\* generate_embedding from its await: the vector is normalised and put in the
\* cache; a failed inference returns the zero vector and puts nothing.
ResumeEmbedding(c, inference_ok) ==
  /\ calls[c].pc = "inference"
  /\ LET image_path == calls[c].image_paths[1]
         image_hash == get_image_hash(image_path)
     IN  IF inference_ok
         THEN \E made \in {ndarray_new(arrays, encode_image(image_path))} :
              \E put \in {EmbeddingCache_put(cache, made.arrays, image_hash, made.array)} :
                /\ cache' = put.self
                /\ calls' = [calls EXCEPT ![c] = Finished(image_hash \in DOMAIN cache.cache)]
                /\ arrays' = Collect(put.arrays, ConcLive(put.self, calls'))
         ELSE /\ calls' = [calls EXCEPT ![c] = Finished(FALSE)]
              /\ UNCHANGED <<cache, arrays>>
  /\ ConcFrame

\* generate_embeddings_batch up to its await: the cache is checked for every
\* path and the misses are loaded; with nothing to infer the call returns.
BeginBatch(c, image_paths) ==
  /\ calls[c].pc = "idle"
  /\ \E checked \in {CheckCache(cache, arrays, image_paths, 1)} :
       LET uncached_paths == [k \in 1..Len(checked.uncached_indices) |->
                                image_paths[checked.uncached_indices[k]]]
       IN  /\ cache' = checked.self
           /\ calls' = [calls EXCEPT ![c] =
                IF Len(ValidIndices(uncached_paths)) = 0
                THEN Finished(FALSE)
                ELSE Suspended("batch_inference", image_paths, checked.embeddings,
                               checked.uncached_indices)]
           /\ arrays' = Collect(checked.arrays, ConcLive(checked.self, calls'))
  /\ ConcFrame

\* generate_embeddings_batch from its await: the store loop puts every
\* inferred vector; a failed inference puts nothing.
ResumeBatch(c, inference_ok) ==
  /\ calls[c].pc = "batch_inference"
  /\ LET image_paths == calls[c].image_paths
         uncached_indices == calls[c].uncached_indices
         uncached_paths == [k \in 1..Len(uncached_indices) |-> image_paths[uncached_indices[k]]]
     IN  IF inference_ok
         THEN \E stored \in {StoreResults(cache, arrays, calls[c].embeddings, uncached_paths,
                                          uncached_indices, ValidIndices(uncached_paths), 1)} :
                /\ cache' = stored.self
                /\ calls' = [calls EXCEPT ![c] =
                     Finished(PutKeys(stored.puts) \cap DOMAIN cache.cache # {})]
                /\ arrays' = Collect(stored.arrays, ConcLive(stored.self, calls'))
         ELSE /\ calls' = [calls EXCEPT ![c] = Finished(FALSE)]
              /\ arrays' = Collect(arrays, ConcLive(cache, calls'))
              /\ UNCHANGED cache
  /\ ConcFrame

ConcNext ==
  \/ \E c \in Callers, path \in ConcPathPool : BeginEmbedding(c, path)
  \/ \E c \in Callers, ok \in BOOLEAN : ResumeEmbedding(c, ok)
  \/ \E c \in Callers, n \in 1..MaxFiles : \E image_paths \in SeqsOf(ConcPathPool, n) :
       BeginBatch(c, image_paths)
  \/ \E c \in Callers, ok \in BOOLEAN : ResumeBatch(c, ok)

SpecConc == ConcInit /\ [][ConcNext]_vars

\* ================================================================ claims
\* Shorthands over a held ranking response.
Responded ==
  pc = "responded" /\ request.op = "generate_recommendations" /\ ~response.raised
Recs == response.result.recommendations
ReqImages == request.images
NumImages == Len(request.images)
\* The input position of the image an item names.
InputIndex(item) == IndexOf([k \in 1..NumImages |-> ReqImages[k].id], item.image_id)
\* Similarity of two input positions in the matrix the response carries.
RespSim(i, j) == response.result.similarity_result.similarity_matrix[i][j]
\* Input positions that belong to a pair above the request's threshold.
InDuplicatePair(i) ==
  \E j \in 1..NumImages : j # i /\ RespSim(i, j) > request.duplicate_threshold
HasBonusResolution(i) ==
  ReqImages[i].resolution[1] >= 1200 /\ ReqImages[i].resolution[2] >= 800

\* C1: for every non-empty batch of n images with distinct ids (and their n
\* embeddings) the response has exactly n items, item k has position k, every
\* input id appears exactly once, and the hero flag is set on the item at
\* position 1 and on no other.
C1_PositionsArePermutation ==
  ( /\ pc = "responded" /\ request.op = "generate_recommendations"
    /\ NumImages >= 1 /\ Len(request.embeddings) = NumImages ) =>
    /\ ~response.raised
    /\ Len(Recs) = NumImages
    /\ \A k \in 1..Len(Recs) : Recs[k].position = k
    /\ \A i \in 1..NumImages :
         Cardinality({k \in 1..Len(Recs) : Recs[k].image_id = ReqImages[i].id}) = 1
    /\ {k \in 1..Len(Recs) : Recs[k].is_hero} = {1}

\* C1 witness: a full batch answered with a hero that is not the first input.
C1_Witness ==
  /\ Responded /\ NumImages = MaxImages
  /\ Recs[1].image_id # ReqImages[1].id

\* heroScore of input position i in hundredths of a point: composite, times
\* 0.2 for a member of a duplicate pair, times 1.1 for at least 1200x800.
C2_HeroScore(i) ==
  ReqImages[i].composite_score
    * (IF InDuplicatePair(i) THEN 2 ELSE 10)
    * (IF HasBonusResolution(i) THEN 11 ELSE 10)

\* C2: the hero is an image of maximal heroScore, and the first such image in
\* input order.
C2_HeroSelection ==
  (Responded /\ NumImages >= 1) =>
    LET h == InputIndex(Recs[1])
    IN  /\ h \in 1..NumImages
        /\ \A j \in 1..NumImages : C2_HeroScore(j) <= C2_HeroScore(h)
        /\ \A j \in 1..(h - 1) : C2_HeroScore(j) < C2_HeroScore(h)

\* C2 witness: the resolution bonus decides: the hero is of bonus resolution
\* and a second image has the very same composite and duplicate status but a
\* smaller resolution and an earlier input position.
C2_Witness ==
  /\ Responded /\ NumImages >= 2
  /\ LET h == InputIndex(Recs[1])
     IN  /\ HasBonusResolution(h)
         /\ \E j \in 1..(h - 1) :
              /\ ReqImages[j].composite_score = ReqImages[h].composite_score
              /\ InDuplicatePair(j) = InDuplicatePair(h)
              /\ ~HasBonusResolution(j)

\* combined * 100 of input position i, in 1/100000 of a point, with the
\* diversity taken against the hero alone.
C3_Combined(i) ==
  (quality_weight * ReqImages[i].composite_score
     + diversity_weight
         * get_diversity_score(ReqImages[i].id, <<Recs[1].image_id>>,
                               response.result.similarity_result))
    * (IF InDuplicatePair(i) THEN duplicate_penalty ELSE 100)

\* C3: every item after the hero carries the combined score of its image
\* (penalised iff the image is in a duplicate pair, diversity against the hero
\* only); the items are in descending score order and equal scores keep their
\* input order.
C3_RemainingRanking ==
  (Responded /\ NumImages >= 1) =>
    /\ \A k \in 2..Len(Recs) : Recs[k].score = C3_Combined(InputIndex(Recs[k]))
    /\ \A k, l \in 2..Len(Recs) :
         k < l => \/ Recs[k].score > Recs[l].score
                  \/ /\ Recs[k].score = Recs[l].score
                     /\ InputIndex(Recs[k]) < InputIndex(Recs[l])

\* C3 witness: two adjacent non-hero items tie on a penalised score that
\* depends on the diversity term.
C3_Witness ==
  /\ Responded /\ NumImages >= 3
  /\ \E k \in 2..(Len(Recs) - 1) :
       /\ Recs[k].score = Recs[k + 1].score
       /\ InDuplicatePair(InputIndex(Recs[k]))
       /\ duplicate_penalty < 100
       /\ diversity_weight > 0

\* The batch of the scenario: three images with composites 90, 70 and 50 (in
\* any input order) and no duplicate pair.
C4_Scenario ==
  /\ Responded /\ NumImages = 3
  /\ {ReqImages[i].composite_score : i \in 1..3} = {90, 70, 50}
  /\ \A i \in 1..3 : ~InDuplicatePair(i)
C4_ItemComposite(k) == ReqImages[InputIndex(Recs[k])].composite_score
C4_Diversity(k) ==
  get_diversity_score(Recs[k].image_id, <<Recs[1].image_id>>,
                      response.result.similarity_result)

\* C4 as stated: in the scenario the order is always 90 (hero), 70, 50.
C4_OrderByScoreAlways ==
  C4_Scenario =>
    /\ C4_ItemComposite(1) = 90 /\ Recs[1].is_hero
    /\ C4_ItemComposite(2) = 70
    /\ C4_ItemComposite(3) = 50

\* C4 amended: in the scenario the score-90 image is the hero at position 1;
\* the score-70 image is second and the score-50 image third whenever
\* qualityWeight * 0.20 exceeds diversityWeight * (diversity of the score-50
\* image against the hero - diversity of the score-70 image against the hero).
C4_OrderByScoreWhenDiversityClose ==
  C4_Scenario =>
    /\ C4_ItemComposite(1) = 90 /\ Recs[1].is_hero
    /\ LET k70 == CHOOSE k \in 2..3 : C4_ItemComposite(k) = 70
           k50 == CHOOSE k \in 2..3 : C4_ItemComposite(k) = 50
       IN  quality_weight * 20 > diversity_weight * (C4_Diversity(k50) - C4_Diversity(k70))
             => (k70 = 2 /\ k50 = 3)

\* C4 witness: the scenario with the two non-hero images differently similar
\* to the hero, the score-50 one the more diverse, and still ranked 70 then 50.
C4_Witness ==
  /\ C4_Scenario
  /\ C4_ItemComposite(2) = 70 /\ C4_ItemComposite(3) = 50
  /\ C4_Diversity(3) > C4_Diversity(2)

\* C5: the reported scores never increase from one position to the next, the
\* hero's reported composite score (in the same unit) included.
C5_ScoresNonIncreasing ==
  Responded =>
    \A k \in 1..(Len(Recs) - 1) : Recs[k].score >= Recs[k + 1].score

\* Shorthands over the analyses of the batch under similarity analysis.
Analysed(t) == analyses[t].run /\ ~analyses[t].raised
AnalysedMatrix(t) == analyses[t].result.similarity_matrix
AnalysedIds(t) == analyses[t].result.image_ids
Reported(t) == analyses[t].result.duplicates
ReportedPairs(t) ==
  {<<Reported(t)[k].image_a, Reported(t)[k].image_b>> : k \in 1..Len(Reported(t))}

\* C6: at every threshold, default or override, the reported list holds the
\* pair (ids[i], ids[j]), i < j, exactly when similarity(i, j) is strictly
\* above the threshold; it holds no self pair, no pair in reverse order and no
\* pair twice.
C6_DuplicatesIffAboveThreshold ==
  \A t \in Thresholds :
    Analysed(t) =>
      LET n == Len(AnalysedIds(t)) IN
      /\ \A i, j \in 1..n :
           i < j => (<<AnalysedIds(t)[i], AnalysedIds(t)[j]>> \in ReportedPairs(t)
                       <=> AnalysedMatrix(t)[i][j] > t)
      /\ \A k \in 1..Len(Reported(t)) :
           /\ IndexOf(AnalysedIds(t), Reported(t)[k].image_a) >= 1
           /\ IndexOf(AnalysedIds(t), Reported(t)[k].image_a)
                < IndexOf(AnalysedIds(t), Reported(t)[k].image_b)
      /\ Cardinality(ReportedPairs(t)) = Len(Reported(t))

\* C6 witness: an override threshold with one pair exactly at the threshold
\* (not reported) and another pair above it (reported).
C6_Witness ==
  \E t \in Thresholds \ {DefaultThreshold} :
    /\ Analysed(t)
    /\ Len(Reported(t)) >= 1
    /\ \E i, j \in 1..Len(AnalysedIds(t)) : i < j /\ AnalysedMatrix(t)[i][j] = t

\* C7: for the same embeddings and ids, the pairs reported at a higher
\* threshold are among the pairs reported at every lower threshold.
C7_ThresholdMonotone ==
  \A t1, t2 \in Thresholds :
    (t1 < t2 /\ Analysed(t1) /\ Analysed(t2)) => ReportedPairs(t2) \subseteq ReportedPairs(t1)

\* C7 witness: the default threshold and a higher one both analysed, the
\* higher one reporting a non-empty, strictly smaller set.
C7_Witness ==
  \E t2 \in Thresholds :
    /\ DefaultThreshold < t2 /\ Analysed(DefaultThreshold) /\ Analysed(t2)
    /\ ReportedPairs(t2) # {}
    /\ ReportedPairs(t2) # ReportedPairs(DefaultThreshold)

\* Shorthands over a returned similarity query.
DiversityCall == call.op = "get_diversity_score"
RedundancyCall == call.op = "get_redundancy_score"
InBatch(id) == IndexOf(result.image_ids, id) >= 1
SimOf(a, b) ==
  result.similarity_matrix[IndexOf(result.image_ids, a)][IndexOf(result.image_ids, b)]
SetMax(S) == CHOOSE x \in S : \A y \in S : y <= x
SelectedSet == {call.selected_ids[k] : k \in 1..Len(call.selected_ids)}

\* C8 as stated: for a candidate and a non-empty selected list of batch ids
\* the score is 1 minus the largest similarity to a selected id; for an empty
\* list it is 1.0.
C8_DiversityIsOneMinusMax ==
  DiversityCall =>
    /\ call.selected_ids = <<>> => call.ret = 100
    /\ (call.selected_ids # <<>> /\ InBatch(call.image_id)
          /\ \A s \in SelectedSet : InBatch(s))
         => call.ret = 100 - SetMax({SimOf(call.image_id, s) : s \in SelectedSet})

\* C8 amended: the score is 1 minus the largest of 0 and the similarities to
\* the selected ids, an id outside the batch counting as similarity 0; for an
\* empty list it is 1.0.
C8_DiversityIsOneMinusMaxFlooredAtZero ==
  DiversityCall =>
    /\ call.selected_ids = <<>> => call.ret = 100
    /\ call.selected_ids # <<>> =>
         call.ret = 100 - SetMax({0} \cup
                      {SimOf(call.image_id, s) :
                         s \in {x \in SelectedSet : InBatch(x) /\ InBatch(call.image_id)}})

\* C8 witness: two selected batch ids, the second the more similar one, with
\* a positive similarity below 1.
C8_Witness ==
  /\ DiversityCall /\ Len(call.selected_ids) = 2 /\ InBatch(call.image_id)
  /\ \A s \in SelectedSet : InBatch(s) /\ s # call.image_id
  /\ SimOf(call.image_id, call.selected_ids[2]) > SimOf(call.image_id, call.selected_ids[1])
  /\ call.ret = 100 - SimOf(call.image_id, call.selected_ids[2])
  /\ call.ret \in 1..99

\* C9: every diversity score and every redundancy score lies in [0, 1].
C9_ScoresInUnitInterval ==
  (DiversityCall \/ RedundancyCall) => (0 <= call.ret /\ call.ret <= 100)

CachedKeys == DOMAIN cache.cache
\* The step just taken was the cache call op (a write by the caller is not).
CacheStep(op) == clock' = clock + 1 /\ cache_call'.op = op
\* The keys of the cache whose last successful get or put is the oldest.
OldestUsed == {e \in CachedKeys : \A k \in CachedKeys : last_use[e] <= last_use[k]}
\* What a get of key would return from the cache self: the contents of the
\* returned array, or "miss".
GetContents(self, h, key) ==
  LET out == EmbeddingCache_get(self, h, key)
  IN  IF out.ret = NoArray THEN "miss" ELSE out.arrays[out.ret]

\* C11: LRU eviction.  A put of a key not in the cache, made when the cache
\* holds exactly max_size entries, removes exactly one entry, the one whose
\* last successful get or put is the oldest; every other entry is kept with
\* its contents, the new key is present, and a get of the evicted key right
\* afterwards is a miss.  A get hit or a put on an existing key leaves the
\* set of keys as it was and makes that key the most recently used one.
C11_LruEviction ==
  [][ /\ ( /\ CacheStep("put") /\ ~cache_call'.hit
           /\ Cardinality(CachedKeys) = cache.max_size )
         => LET evicted == CachedKeys \ DOMAIN cache'.cache
            IN  /\ Cardinality(evicted) = 1
                /\ evicted = OldestUsed
                /\ DOMAIN cache'.cache = (CachedKeys \ evicted) \cup {cache_call'.key}
                /\ \A k \in CachedKeys \ evicted :
                     GetContents(cache', arrays', k) = GetContents(cache, arrays, k)
                /\ \A e \in evicted : GetContents(cache', arrays', e) = "miss"
      /\ ( /\ CacheStep("get") \/ CacheStep("put")
           /\ cache_call'.hit )
         => /\ DOMAIN cache'.cache = CachedKeys
            /\ cache'.access_order[Len(cache'.access_order)] = cache_call'.key
            /\ \A k \in CachedKeys : last_use'[k] <= last_use'[cache_call'.key]
    ]_vars

\* Reached: a full cache of size 2 whose first-inserted key was read again
\* before a third key was put: the put evicted the other, older-used key.
C11_Witness ==
  /\ cache.max_size = 2 /\ clock = 4
  /\ cache_call.op = "put" /\ ~cache_call.hit
  /\ \E a, b \in KeyPool :
       /\ a # b /\ a # cache_call.key /\ b # cache_call.key
       /\ last_use[b] = 2 /\ last_use[a] = 3
       /\ CachedKeys = {a, cache_call.key}
       /\ cache.access_order = <<a, cache_call.key>>

\* C12: cache invariant.  The number of entries never exceeds max_size and
\* access_order lists exactly the cached keys, each once; a get miss changes
\* neither the cache nor any stored contents; a key leaves the cache only as
\* the least recently used key evicted by a put of a new key into a full
\* cache, or by clear, after which the cache is empty.
C12_CacheInvariant ==
  /\ [] /\ Cardinality(CachedKeys) <= cache.max_size
        /\ Len(cache.access_order) = Cardinality(CachedKeys)
        /\ {cache.access_order[i] : i \in 1..Len(cache.access_order)} = CachedKeys
  /\ [][ /\ (CacheStep("get") /\ ~cache_call'.hit)
            => /\ cache' = cache
               /\ \A k \in KeyPool :
                    GetContents(cache', arrays', k) = GetContents(cache, arrays, k)
         /\ CacheStep("clear")
            => cache'.cache = <<>> /\ cache'.access_order = <<>>
         /\ \A k \in CachedKeys \ DOMAIN cache'.cache :
              \/ CacheStep("clear")
              \/ /\ CacheStep("put") /\ ~cache_call'.hit
                 /\ Cardinality(CachedKeys) = cache.max_size
                 /\ k \in OldestUsed
       ]_vars

\* Reached: a get miss on a cache holding the largest number of entries drawn.
C12_Witness ==
  /\ cache_call.op = "get" /\ ~cache_call.hit
  /\ cache.max_size = MaxCacheSize
  /\ Cardinality(CachedKeys) = cache.max_size

\* C13: defensive copies.  put stores an array of its own with the contents
\* passed, a get hit returns a new array no other name reaches with the
\* stored contents, and a write into an array the caller holds (one passed
\* to put or returned by get) changes what no later get returns.
C13_DefensiveCopies ==
  [][ /\ CacheStep("put")
         => /\ cache'.cache[cache_call'.key] # held'.arg
            /\ GetContents(cache', arrays', cache_call'.key) = arrays'[held'.arg]
      /\ (CacheStep("get") /\ cache_call'.hit)
         => /\ held'.ret \notin {cache'.cache[k] : k \in DOMAIN cache'.cache}
            /\ held'.ret # held'.arg
            /\ arrays'[held'.ret] = GetContents(cache, arrays, cache_call'.key)
      /\ cache_call'.op = "mutate"
         => \A k \in KeyPool :
              GetContents(cache', arrays', k) = GetContents(cache, arrays, k)
    ]_vars

\* Reached: after a put and a get hit of the same key the caller has
\* overwritten both the array it passed and the array it got back, and the
\* stored contents differ from both.
C13_Witness ==
  /\ cache_call.op = "mutate" /\ clock = 2
  /\ held.arg # NoArray /\ held.ret # NoArray
  /\ \E k \in CachedKeys :
       /\ last_use[k] = 2
       /\ arrays[held.arg] # arrays[cache.cache[k]]
       /\ arrays[held.ret] # arrays[cache.cache[k]]

\* ------------------------------------------------- generator shorthands
\* The step just taken was a call of op on the generator that returned.
GenStep(op) == gen_call = NoCall /\ gen_call'.op = op /\ ~gen_call'.raised
\* Before the call: the path's fingerprint is cached; the paths that miss.
WasCached(path) == get_image_hash(path) \in CachedKeys
MissPaths(paths) == SelectSeq(paths, LAMBDA path : ~WasCached(path))
LoadableMissPaths(paths) ==
  SelectSeq(paths, LAMBDA path : ~WasCached(path) /\ path \notin corrupt)
\* After the call: the contents of returned slot i.
Slot(i) == arrays'[gen_call'.ret[i]]

\* The part of C14 that does not depend on how the inference batch is sized:
\* k slots for k paths; a slot whose fingerprint was cached holds the cached
\* contents and its path is in no inference batch; when inference succeeds,
\* every miss that loads has its inferred vector in its own slot, and the
\* puts are exactly those vectors under their paths' fingerprints, in batch
\* order, the last of them still cached on return.
C14_SlotsAndStores ==
  LET paths == gen_call'.image_paths
      inferred == LoadableMissPaths(paths)
  IN  /\ Len(gen_call'.ret) = Len(paths)
      /\ \A i \in 1..Len(paths) :
           WasCached(paths[i])
             => /\ Slot(i) = arrays[cache.cache[get_image_hash(paths[i])]]
                /\ \A c \in 1..Len(gen_call'.inference_calls) :
                     \A k \in 1..Len(gen_call'.inference_calls[c]) :
                       gen_call'.inference_calls[c][k] # paths[i]
      /\ Len(gen_call'.inference_calls) <= 1
      /\ gen_call'.inference_ok
           => /\ \A i \in 1..Len(paths) :
                   (~WasCached(paths[i]) /\ paths[i] \notin corrupt)
                     => Slot(i) = encode_image(paths[i])
              /\ gen_call'.puts =
                   [k \in 1..Len(inferred) |->
                      [key |-> get_image_hash(inferred[k]),
                       contents |-> encode_image(inferred[k])]]
              /\ inferred # <<>>
                   => GetContents(cache', arrays', get_image_hash(inferred[Len(inferred)]))
                        = encode_image(inferred[Len(inferred)])

\* C14 as stated: generate_embeddings_batch on k paths returns k vectors, slot
\* i for path i; cached slots come from the cache without inference; all the
\* cache misses go to the model in one inference call whose batch size is the
\* number of misses; each inferred vector lands in its path's slot and in the
\* cache under its path's fingerprint.
C14_OneCallSizedToMisses ==
  [][ GenStep("generate_embeddings_batch")
        => /\ C14_SlotsAndStores
           /\ LET misses == MissPaths(gen_call'.image_paths)
              IN  gen_call'.inference_calls = IF misses = <<>> THEN <<>> ELSE <<misses>>
    ]_vars

\* C14, amended: as above, but the one inference call holds the cache misses
\* whose image could be loaded, in batch order, and is not made when there
\* are none; a miss that cannot be loaded is in no inference call.
C14_OneCallSizedToLoadableMisses ==
  [][ GenStep("generate_embeddings_batch")
        => /\ C14_SlotsAndStores
           /\ LET loadable == LoadableMissPaths(gen_call'.image_paths)
              IN  gen_call'.inference_calls = IF loadable = <<>> THEN <<>> ELSE <<loadable>>
    ]_vars

\* Reached: a batch of three distinct paths returned with one slot served
\* from the cache, one miss that could not be loaded and one miss inferred
\* alone and stored.
C14_Witness ==
  /\ gen_call.op = "generate_embeddings_batch" /\ ~gen_call.raised
  /\ gen_call.inference_ok /\ Len(gen_call.image_paths) = 3
  /\ Cardinality({gen_call.image_paths[i] : i \in 1..3}) = 3
  /\ Cardinality({gen_call.image_paths[i] : i \in 1..3} \cap corrupt) = 1
  /\ Len(gen_call.inference_calls) = 1 /\ Len(gen_call.inference_calls[1]) = 1
  /\ Len(gen_call.puts) = 1
  /\ \E i \in 1..3 : arrays[gen_call.ret[i]] = ZeroVector
  /\ \E i \in 2..3 :
       /\ gen_call.image_paths[i] = gen_call.inference_calls[1][1]
       /\ arrays[gen_call.ret[i]] = encode_image(gen_call.image_paths[i])

\* The recommendations of an analysis response, and the ids of its batch.
AnalysisRecs == gen_call.response.result.recommendations
AnalysisIds == {PathStem(gen_call.image_paths[i]) : i \in 1..Len(gen_call.image_paths)}

\* C15: with the model loaded, a corrupt or unreadable image does not abort
\* the pipeline.  Quality analysis gives it composite score 0 and resolution
\* 0x0; batch embedding gives its slot a zero vector and, when inference
\* succeeds, every other slot its cached or inferred vector; neither raises;
\* and the ranking of the resulting n images has n items at positions 1..n
\* naming each image once.
C15_CorruptImageTolerated ==
  /\ (gen_call.op = "generate_embeddings_batch" /\ model = "loaded")
       => /\ ~gen_call.raised
          /\ Len(gen_call.ret) = Len(gen_call.image_paths)
          /\ \A i \in 1..Len(gen_call.image_paths) :
               IF gen_call.image_paths[i] \in corrupt
               THEN arrays[gen_call.ret[i]] = ZeroVector
               ELSE gen_call.inference_ok
                      => arrays[gen_call.ret[i]] = encode_image(gen_call.image_paths[i])
  /\ (gen_call.op = "analyze_images" /\ model = "loaded" /\ Len(gen_call.image_paths) >= 1)
       => /\ gen_call.status = 200
          /\ Len(gen_call.quality_results) = Len(gen_call.image_paths)
          /\ Len(gen_call.embeddings) = Len(gen_call.image_paths)
          /\ \A i \in 1..Len(gen_call.image_paths) :
               IF gen_call.image_paths[i] \in corrupt
               THEN /\ gen_call.quality_results[i].composite_score = 0
                    /\ gen_call.quality_results[i].resolution = <<0, 0>>
                    /\ gen_call.embeddings[i] = ZeroVector
               ELSE gen_call.inference_ok
                      => gen_call.embeddings[i] = encode_image(gen_call.image_paths[i])
          /\ Len(AnalysisRecs) = Len(gen_call.image_paths)
          /\ \A k \in 1..Len(AnalysisRecs) : AnalysisRecs[k].position = k
          /\ {AnalysisRecs[k].image_id : k \in 1..Len(AnalysisRecs)} = AnalysisIds

\* Reached: an analysis of three files, the first of them corrupt and one of
\* the others already cached, answered with a three-item ranking.
C15_Witness ==
  /\ gen_call.op = "analyze_images" /\ model = "loaded" /\ gen_call.inference_ok
  /\ Len(gen_call.image_paths) = 3
  /\ {gen_call.image_paths[i] : i \in 1..3} \cap corrupt = {gen_call.image_paths[1]}
  /\ gen_call.status = 200 /\ Len(AnalysisRecs) = 3
  /\ gen_call.embeddings[1] = ZeroVector
  /\ gen_call.quality_results[1].composite_score = 0
  /\ Len(gen_call.inference_calls) = 1 /\ Len(gen_call.inference_calls[1]) = 1

\* C16: when the model is unavailable (ML dependencies absent, or no model
\* loaded), generate_embedding and generate_embeddings_batch both return,
\* without raising, one unit-norm vector per image, fixed by the image's
\* content fingerprint.
C16_FallbackWhenModelUnavailable ==
  ( /\ gen_call.op \in {"generate_embedding", "generate_embeddings_batch"}
    /\ ~has_ml_deps \/ model = "none" )
    => /\ ~gen_call.raised
       /\ Len(gen_call.ret) = Len(gen_call.image_paths)
       /\ \A i \in 1..Len(gen_call.image_paths) :
            arrays[gen_call.ret[i]]
              = MockEmbedding(hash_seed, get_image_hash(gen_call.image_paths[i]))

\* C17: compute_similarity_matrix never propagates an error: the empty batch
\* gives the empty matrix, a single image the 1x1 identity, and a batch of n
\* embeddings on which the computation fails the n x n identity, under which
\* no pair is a duplicate and every diversity against another image is 1.
C17_IdentityFallback ==
  call.op = "compute_similarity_matrix"
    => LET n == Len(embeddings)
           ids == BatchIds(n)
       IN  /\ ~call.raised
           /\ n = 0 => call.ret = <<>>
           /\ n = 1 => call.ret = IdentityMatrix(1)
           /\ (n >= 1 /\ StackFails(embeddings))
                => /\ call.ret = IdentityMatrix(n)
                   /\ \A t \in Thresholds : find_duplicates(call.ret, ids, t) = <<>>
                   /\ \A i, j \in 1..n :
                        i # j => get_diversity_score(ids[i], <<ids[j]>>,
                                                     SimilarityResult(call.ret, ids)) = 100

\* ------------------------------------------------- validation shorthands
RankingCall == pc = "responded" /\ request.op = "generate_recommendations"
\* The step just taken was a call of the setter op.
ConfigStep(op) == pc = "idle" /\ pc' = "responded" /\ request'.op = op

\* C18: generate_recommendations on an empty image list raises nothing and
\* returns an empty recommendation list, no hero image and an empty duplicate
\* set, whatever embeddings and threshold come with it.
C18_EmptyBatch ==
  (RankingCall /\ Len(request.images) = 0)
    => /\ ~response.raised
       /\ response.result.recommendations = <<>>
       /\ response.result.hero_image = NoHero
       /\ response.result.similarity_result.duplicates = <<>>
       /\ get_duplicate_ids(response.result.similarity_result) = {}

\* Reached: the empty image list answered, once with no embeddings and once
\* with embeddings left over (this one).
C18_Witness ==
  /\ RankingCall /\ Len(request.images) = 0 /\ Len(request.embeddings) = MaxImages
  /\ ~response.raised /\ response.result.recommendations = <<>>

\* C19 as stated: every call of generate_recommendations in which the number
\* of embeddings differs from the number of images fails with a validation
\* error and returns no result, the empty image list with a non-empty
\* embedding list included.
C19_MismatchAlwaysRaises ==
  (RankingCall /\ Len(request.embeddings) # Len(request.images))
    => response.raised

\* C19, amended: every call with a non-empty image list in which the number
\* of embeddings differs from the number of images raises and returns no
\* result; an empty image list returns the empty result whatever the number
\* of embeddings.
C19_MismatchRaisesForNonEmptyBatch ==
  (RankingCall /\ Len(request.embeddings) # Len(request.images))
    => IF Len(request.images) = 0
       THEN response = Returned(RecommendationResult(<<>>, SimilarityResult(<<>>, <<>>)))
       ELSE response = Raised

\* Reached: a single image passed with MaxImages embeddings, refused.
C19_Witness ==
  /\ RankingCall /\ response.raised
  /\ Len(request.images) = 1 /\ Len(request.embeddings) = MaxImages

\* C20 as stated: after any sequence of update_weights and
\* set_duplicate_penalty calls the two weights sum to exactly 1.0 and the
\* penalty is in [0, 1]; a call whose weights do not sum to 1.0, or whose
\* penalty is outside [0, 1], raises and leaves all three values unchanged.
C20_WeightsSumToOne ==
  /\ [](quality_weight + diversity_weight = 1000
          /\ 0 <= duplicate_penalty /\ duplicate_penalty <= 100)
  /\ [][ /\ ( /\ ConfigStep("update_weights")
              /\ request'.quality_weight + request'.diversity_weight # 1000 )
            => response'.raised /\ UNCHANGED engineVars
         /\ ( /\ ConfigStep("set_duplicate_penalty")
              /\ ~(0 <= request'.penalty /\ request'.penalty <= 100) )
            => response'.raised /\ UNCHANGED engineVars
       ]_vars

\* C20, amended: the two weights always sum to within 0.01 of 1.0 and the
\* penalty is in [0, 1]; update_weights raises and changes nothing when the
\* sum is more than 0.01 away from 1.0 and otherwise assigns both weights;
\* set_duplicate_penalty raises and changes nothing outside [0, 1] and
\* otherwise assigns the penalty; neither touches the other's values.
C20_WeightsSumToOneWithinTolerance ==
  /\ [](Abs(quality_weight + diversity_weight - 1000) <= 10
          /\ 0 <= duplicate_penalty /\ duplicate_penalty <= 100)
  /\ [][ /\ ConfigStep("update_weights")
            => IF Abs(request'.quality_weight + request'.diversity_weight - 1000) > 10
               THEN response'.raised /\ UNCHANGED engineVars
               ELSE /\ ~response'.raised /\ UNCHANGED duplicate_penalty
                    /\ quality_weight' = request'.quality_weight
                    /\ diversity_weight' = request'.diversity_weight
         /\ ConfigStep("set_duplicate_penalty")
            => IF ~(0 <= request'.penalty /\ request'.penalty <= 100)
               THEN response'.raised /\ UNCHANGED engineVars
               ELSE /\ ~response'.raised /\ duplicate_penalty' = request'.penalty
                    /\ UNCHANGED <<quality_weight, diversity_weight>>
       ]_vars

\* Reached: weights accepted inside the tolerance and a penalty other than
\* the default are in force, and a later update_weights has been refused.
C20_Witness ==
  /\ pc = "responded" /\ request.op = "update_weights" /\ response.raised
  /\ quality_weight + diversity_weight # 1000
  /\ duplicate_penalty # DefaultDuplicatePenalty

\* The request has ended: with a response, with status 500, or cancelled.
RequestEnded == analyze_images.pc \in {"responded", "error_500", "cancelled"}

\* C21: the handler creates the quality task and the embedding task together,
\* before it awaits either, and generate_recommendations starts only when
\* both tasks have completed with a result for every image of the batch.
C21_RankingAwaitsBothTasks ==
  /\ analyze_images.pc # "idle" => (quality_task.state # "none" /\ embedding_task.state # "none")
  /\ analyze_images.pc \in {"ranking", "responded"}
       => /\ quality_task.state = "done" /\ embedding_task.state = "done"
          /\ analyze_images.quality_results = Batch(analyze_images.image_count)
          /\ analyze_images.embeddings = Batch(analyze_images.image_count)

\* Reached: ranking starts on a batch of two images with the results of both
\* tasks.
C21_Witness ==
  /\ analyze_images.pc = "ranking" /\ analyze_images.image_count = 2
  /\ quality_task.state = "done" /\ embedding_task.state = "done"
  /\ analyze_images.embeddings = {1, 2}

\* C22: when a request ends cancelled or failed, none of its tasks is still
\* in flight, and a request that was cancelled or whose task failed returns
\* no result.
C22_NoTaskOutlivesRequest ==
  /\ RequestEnded /\ analyze_images.pc # "responded"
       => ~InFlight(quality_task) /\ ~InFlight(embedding_task)
  /\ analyze_images.pc = "responded"
       => ~analyze_images.cancel_requested /\ embedding_task.state = "done"

\* C23: when calls on the generator interleave at their awaits, every state
\* between their steps has at most max_size cached entries and an
\* access_order that lists exactly the cached keys, each once; a step of one
\* call leaves the local state of the other call alone.
C23_CacheInvariantUnderInterleaving ==
  /\ [] /\ Cardinality(DOMAIN cache.cache) <= cache.max_size
        /\ \A i, j \in 1..Len(cache.access_order) :
             i # j => cache.access_order[i] # cache.access_order[j]
        /\ {cache.access_order[i] : i \in 1..Len(cache.access_order)} = DOMAIN cache.cache
  /\ [][\A c, o \in Callers : (calls'[c] # calls[c] /\ o # c) => calls'[o] = calls[o]]_vars

\* Reached: both calls missed hash1 and were suspended together; the first
\* has put it, and the second has put it again on a cache that held it.
C23_Witness ==
  /\ calls["first"].pc = "idle" /\ calls["second"].pc = "idle"
  /\ calls["second"].found_present /\ ~calls["first"].found_present
  /\ "hash1" \in DOMAIN cache.cache /\ Len(cache.access_order) = cache.max_size

\* ----------------------------------------------------- session shorthands
\* The session has neither an in-memory entry nor a directory.
Gone(session_id) == session_id \notin DOMAIN sessions /\ session_id \notin DOMAIN disk
\* The step just taken was the call op on session_id.
SessionStep(op, session_id) ==
  session_call'.op = op /\ session_call'.session_id = session_id

\* C24: after cleanup_session(id) returns True for an existing session the
\* session is gone for good, whatever storage backend or upload directory is
\* configured: id is not in the session table, its directory with metadata
\* and files no longer exists, it stays that way, and every later
\* get_session(id) returns None instead of reloading it from disk.
C24_CleanedSessionIsGone ==
  [][ \A id \in SessionIdPool :
        /\ ( /\ SessionStep("cleanup_session", id)
             /\ session_call'.existed /\ session_call'.ret )
           => (id \notin DOMAIN sessions' /\ id \notin DOMAIN disk')
        /\ (Gone(id) /\ id \in issued)
           => (id \notin DOMAIN sessions' /\ id \notin DOMAIN disk')
        /\ (Gone(id) /\ SessionStep("get_session", id))
           => session_call'.ret = NoSession
    ]_vars

\* C30: session file tracking survives a reload: after any sequence of
\* add_file_to_session calls, with or without an original filename, a
\* manager that does not have the session in memory and loads it from
\* metadata.json gets the file list, in the order, the in-memory session has.
C30_FileListSurvivesReload ==
  \A id \in DOMAIN sessions :
    LET reloaded == get_session(<<>>, disk, id).ret
    IN  reloaded # NoSession /\ reloaded.files = sessions[id].files

\* C25: after start_cleanup_task a cleanup task exists and is running; when
\* stop_cleanup_task completes the task it was called on is done; and over
\* every sequence of start and stop calls at most one cleanup loop is alive:
\* a start while a task is running creates no second task, a start when
\* there is none or the last one is done creates a new running one.
C25_OneCleanupLoop ==
  /\ [](Cardinality(Alive(loop_tasks)) <= 1)
  /\ [][ /\ (cleanup_call' # cleanup_call /\ cleanup_call'.op = "start_cleanup_task")
            => /\ cleanup_task' # NoTask /\ cleanup_task' \in Alive(loop_tasks')
               /\ IF cleanup_task # NoTask /\ cleanup_task \in Alive(loop_tasks)
                  THEN cleanup_task' = cleanup_task /\ loop_tasks' = loop_tasks
                  ELSE /\ Len(loop_tasks') = Len(loop_tasks) + 1
                       /\ cleanup_task' = Len(loop_tasks')
         /\ (cleanup_call' # cleanup_call /\ cleanup_call'.op = "stop_cleanup_task")
            => (cleanup_call'.task # NoTask => Done(loop_tasks', cleanup_call'.task))
       ]_vars

\* Reached: a second task is running after the first was stopped, and a
\* start call on it has returned without creating a third.
C25_Witness ==
  /\ Len(loop_tasks) = 2 /\ loop_tasks[1].outcome = "cancelled"
  /\ cleanup_task = 2 /\ ~Done(loop_tasks, 2) /\ loop_tasks[2].passes = 1
  /\ cleanup_call = [op |-> "start_cleanup_task", task |-> 2]

\* C26: whenever a QualityMetrics object has no flag its suggestion list
\* contains the generic "meets standards" entries, and for every input the
\* suggestion list has at most 8 entries.
C26_GenericSuggestionsWhenNoFlags ==
  quality_metrics.built
    => /\ quality_metrics.object.flags = <<>>
            => \A k \in 1..Len(MeetsStandards) :
                 Has(quality_metrics.object.suggestions, MeetsStandards[k])
       /\ Len(quality_metrics.object.suggestions) <= 8

\* C27: validate_upload_file returns the file when it passes every check,
\* and for every file that fails validation (extension, content type, size,
\* magic bytes, dimensions, format mismatch) raises an HTTPException with
\* status 400 whose detail is the validation message; no other exception
\* type escapes it on a validation failure.
C27_ValidationFailureIs400 ==
  validation # NoOutcome
    => LET body == ValidateFileBody(upload)
       IN  /\ body.exc = "none" => validation = [kind |-> "returned", file |-> upload]
           /\ body.exc = "SecurityError"
                => validation = [kind |-> "HTTPException", status_code |-> 400,
                                 detail |-> body.message]

\* C28: the identity fallback of compute_similarity_matrix is taken only when
\* the computation itself fails: for every batch of two or more well-formed
\* embeddings, a batch of identical ones included, the returned matrix holds
\* the true pairwise similarities, so two images with identical non-zero
\* embeddings are a duplicate pair at every threshold below 1.0.
C28_FallbackOnlyOnFailure ==
  ( /\ call.op = "compute_similarity_matrix"
    /\ Len(embeddings) >= 2
    /\ \A i \in 1..Len(embeddings) : embeddings[i].kind = "unit" )
    => LET n == Len(embeddings)
           ids == BatchIds(n)
       IN  /\ call.ret = cosine_similarity(embeddings)
           /\ \A t \in Thresholds : \A i, j \in 1..n :
                (i < j /\ embeddings[i] = embeddings[j])
                  => \E k \in 1..Len(find_duplicates(call.ret, ids, t)) :
                       /\ find_duplicates(call.ret, ids, t)[k].image_a = ids[i]
                       /\ find_duplicates(call.ret, ids, t)[k].image_b = ids[j]


\* C29: a zero fallback vector is never stored in the embedding cache: after
\* any sequence of generate_embedding and generate_embeddings_batch calls
\* every cached value is the vector a successful inference produced for the
\* image with that fingerprint; an image that was given the zero vector is
\* not in the cache when the call returns, and a call on an image that is
\* not cached and loads sends it to the model again.
C29_ZeroVectorNeverCached ==
  /\ [](\A k \in CachedKeys :
          /\ GetContents(cache, arrays, k) # ZeroVector
          /\ \E path \in PathPool :
               get_image_hash(path) = k /\ GetContents(cache, arrays, k) = encode_image(path))
  /\ [][ \A op \in {"generate_embedding", "generate_embeddings_batch"} :
           (GenStep(op) /\ has_ml_deps)
             => \A i \in 1..Len(gen_call'.image_paths) :
                  LET path == gen_call'.image_paths[i]
                  IN  /\ Slot(i) = ZeroVector
                        => get_image_hash(path) \notin DOMAIN cache'.cache
                      /\ (~WasCached(path) /\ path \notin corrupt)
                        => \E c \in 1..Len(gen_call'.inference_calls) :
                             \E k \in 1..Len(gen_call'.inference_calls[c]) :
                               gen_call'.inference_calls[c][k] = path
       ]_vars

\* Reached: a call whose inference failed has returned the zero vector for an
\* image that loads, while the cache holds another image's vector and not
\* this one's.
C29_Witness ==
  /\ gen_call # NoCall /\ gen_call.op \in {"generate_embedding", "generate_embeddings_batch"}
  /\ ~gen_call.raised /\ ~gen_call.inference_ok
  /\ Len(gen_call.inference_calls) = 1
  /\ CachedKeys # {}
  /\ \E i \in 1..Len(gen_call.image_paths) :
       /\ arrays[gen_call.ret[i]] = ZeroVector
       /\ gen_call.image_paths[i] \notin corrupt
       /\ get_image_hash(gen_call.image_paths[i]) \notin CachedKeys

====
